---- MODULE Spec2Model ----
(***************************************************************************)
(* A model of mracket, a mutation-testing engine for Racket programs.      *)
(*                                                                         *)
(* Part I   the AST, the Stringifier and the MutationApplier               *)
(*          (reader/syntax.py, reader/stringify.py, mutation/applier.py).  *)
(*          Specification: SpecApplier.                                    *)
(* Part II  the Runner and its child processes (runner/__init__.py,        *)
(*          runner/result.py, runner/output.py).                           *)
(*          Specification: SpecRunner.                                     *)
(* Part III ProgramOutput (runner/output.py).  Specification: SpecOutput.  *)
(* Part IV  the mutation generators and the Mutator (mutation/generator,   *)
(*          mutation/mutator.py).  Specification: SpecMutator.             *)
(* Part V   the Lexer and the Parser (reader/lexer.py, reader/parser.py).  *)
(*          Specifications: SpecLexer, SpecReader.                         *)
(***************************************************************************)
EXTENDS Integers, Sequences, FiniteSets, TLC

VARIABLES
    \* ---- Part I: MutationApplier ----
    ast,        \* the program's object graph: node id -> node object, as it is now
    ast0,       \* history: the object graph when the applier was constructed
    mutations,  \* MutationApplier.mutations
    mutants,    \* the Mutants the generator apply_mutations() has yielded so far
    apc,        \* the generator's position: "created", "suspended", "exhausted"
    \* ---- Part II: Runner ----
    file,             \* the input file: does it exist, what it holds, how it runs
    now,              \* time.time(), in ticks of the poll sleep (0.1 s)
    programs,         \* the TemporaryRacketProgram objects made so far, by id
    killed,           \* the ids whose process.kill() has been called
    tempfiles,        \* the ids whose temp file is on disk
    rpc,              \* Runner.run: "init", "unmodified", "returned"
    result,           \* Runner.result
    unmodified,       \* run_unmodified: what it read from the finished program
    mutant_stream,    \* run_mutants: the mutants iterator, what is left of it
    gpc,              \* run_mutants generator: "none", "top", "poll", "drain_top",
                      \*   "drain", "done", "raised"
    process_count,    \* run_mutants local
    running_programs, \* run_mutants local: list of program ids
    it,               \* run_mutants: the index the running for loop reads next
    outputs,          \* the MutantOutputs run_mutants has yielded
    timed_out,        \* history: the ids whose finished found the deadline passed
    epc,              \* RunnerSuccess._evaluate_mutants: "none" (not called),
                      \*   "iterating", "returned", "raised"
    evaluated_mutant_results, \* RunnerSuccess._evaluated_mutant_results
    n_killed,         \* _evaluate_mutants local: killed
    n_execution_error, \* _evaluate_mutants local: execution_error
    score,            \* what RunnerSuccess.score returned
    mutant_results,   \* RunnerSuccess.mutant_results: None or "generator"
    counters,         \* RunnerSuccess._total, _killed, _execution_error
    call,             \* the call of score or to_dict under way
    calls,            \* what the calls of score and to_dict that ended gave
    \* ---- Part III: ProgramOutput ----
    po_stdout,        \* the stdout text given to ProgramOutput, as its report phrases
    po,               \* the ProgramOutput constructed from it, or "none"
    \* ---- Part IV: Mutator (with ast0, ast, mutations of Part I) ----
    mutator,          \* the Mutator: its generators and name-specific mutators
    mpc,              \* Mutator.generate_mutations: "none", "created", "generated"
    \* ---- Part V: Lexer, Parser, Stringifier ----
    input_statements, \* history: the statements the first source was written from
    source0,          \* history: the first source
    tokenized_source, \* the source given to Lexer.tokenize
    lexer_object,     \* the Lexer object
    yielded_tokens,   \* the tokens the generator tokenize(source) has yielded
    lpc,              \* the generator's position: "none", "created", "suspended",
                      \*   "exhausted", "raised"
    lexer_error,      \* the exception that left the generator: its class and offset
    parsed,           \* what Parser.parse gave, one entry for each round
    stringified,      \* what Stringifier().visit gave, one entry for each round
    round             \* 0: reading the first source; 1: reading stringified[1]

applierVars == <<ast, ast0, mutations, mutants, apc>>

runnerVars == <<file, now, programs, killed, tempfiles, rpc, result, unmodified,
                mutant_stream, gpc, process_count, running_programs, it, outputs,
                timed_out, epc, evaluated_mutant_results, n_killed, n_execution_error,
                score, mutant_results, counters, call, calls>>

evalVars == <<epc, evaluated_mutant_results, n_killed, n_execution_error, score,
             mutant_results, counters, call, calls>>

outputVars == <<po_stdout, po>>

mutatorVars == <<mutator, mpc>>

readerVars == <<input_statements, source0, tokenized_source, lexer_object, yielded_tokens, lpc,
               lexer_error, parsed, stringified, round>>

notApplierVars == <<runnerVars, outputVars, mutatorVars, readerVars>>

notRunnerVars == <<applierVars, outputVars, mutatorVars, readerVars>>

notOutputVars == <<applierVars, runnerVars, mutatorVars, readerVars>>

notMutatorVars == <<mutants, apc, runnerVars, outputVars, readerVars>>

notReaderVars == <<applierVars, runnerVars, outputVars, mutatorVars>>

vars == <<ast, ast0, mutations, mutants, apc, file, now, programs, killed, tempfiles,
          rpc, result, unmodified, mutant_stream, gpc, process_count, running_programs,
          it, outputs, timed_out, epc, evaluated_mutant_results, n_killed,
          n_execution_error, score, mutant_results, counters, call, calls, po_stdout, po,
          mutator, mpc, input_statements, source0, tokenized_source, lexer_object,
          yielded_tokens, lpc, lexer_error, parsed, stringified, round>>

(***************************************************************************)
(* Text.  A Python str is a sequence of one-character strings.             *)
(***************************************************************************)
RECURSIVE Join(_, _)
\* sep.join(parts)
Join(sep, parts) ==
    IF parts = <<>> THEN <<>>
    ELSE IF Len(parts) = 1 THEN parts[1]
    ELSE parts[1] \o sep \o Join(sep, Tail(parts))

SP == <<" ">>
NL == <<"\n">>
LP == <<"(">>
RP == <<")">>

S_lang    == <<"#","l","a","n","g"," ","r","a","c","k","e","t">>
S_define  == <<"d","e","f","i","n","e">>
S_struct  == <<"d","e","f","i","n","e","-","s","t","r","u","c","t">>
S_cond    == <<"c","o","n","d">>
S_lambda  == <<"l","a","m","b","d","a">>
S_local   == <<"l","o","c","a","l">>
S_require == <<"r","e","q","u","i","r","e">>
S_let     == <<"l","e","t">>
S_check   == <<"c","h","e","c","k","-","e","x","p","e","c","t">>
S_else    == <<"e","l","s","e">>
S_and     == <<"a","n","d">>
S_or      == <<"o","r">>
S_true    == <<"#","t">>
S_false   == <<"#","f">>
S_lib     == <<"l","i","b">>

(***************************************************************************)
(* AST nodes (reader/syntax.py).  A node object is a record; a slot holds  *)
(* the id of a node object, so that identity (Python's `is`) is equality   *)
(* of ids.  token is the node's primary token, reduced to its source.      *)
(***************************************************************************)
\* Token(type, ..., source): offset, lineno and colno are left to the Lexer
Token(type, source) == [type |-> type, source |-> source]

\* the type the Lexer gives a literal's token: TOKEN_PATTERNS
LiteralTokenType(source) ==
    IF Head(source) = "#" THEN "BOOLEAN"
    ELSE IF Head(source) = "\"" THEN "STRING"
    ELSE "NUMBER"

RacketProgramNode(reader_directive, statements) ==
    [kind |-> "program", token |-> Token("READER DIRECTIVE", <<>>),
     reader_directive |-> reader_directive, statements |-> statements]
RacketReaderDirectiveNode(source) ==
    [kind |-> "reader_directive", token |-> Token("READER DIRECTIVE", source)]
RacketNameDefinitionNode(name, expression) ==
    [kind |-> "name_definition", token |-> Token("LPAREN", LP), name |-> name, expression |-> expression]
RacketStructureDefinitionNode(name, fields) ==
    [kind |-> "structure_definition", token |-> Token("LPAREN", LP), name |-> name, fields |-> fields]
RacketLiteralNode(source) == [kind |-> "literal", token |-> Token(LiteralTokenType(source), source)]
RacketNameNode(source) == [kind |-> "name", token |-> Token("SYMBOL", source)]
RacketCondNode(branches) == [kind |-> "cond", token |-> Token("LPAREN", LP), branches |-> branches]
RacketLambdaNode(variables, expression) ==
    [kind |-> "lambda", token |-> Token("LPAREN", LP), variables |-> variables, expression |-> expression]
RacketLetNode(type, local_definitions, expression) ==
    [kind |-> "let", token |-> Token("LPAREN", LP), type |-> type,
     local_definitions |-> local_definitions, expression |-> expression]
RacketLocalNode(definitions, expression) ==
    [kind |-> "local", token |-> Token("LPAREN", LP), definitions |-> definitions, expression |-> expression]
RacketProcedureApplicationNode(expressions) ==
    [kind |-> "procedure_application", token |-> Token("LPAREN", LP), expressions |-> expressions]
RacketTestCaseNode(type, expressions) ==
    [kind |-> "test_case", token |-> Token("LPAREN", LP), type |-> type, expressions |-> expressions]
RacketLibraryRequireNode(library) ==
    [kind |-> "library_require", token |-> Token("LPAREN", LP), library |-> library]

(***************************************************************************)
(* Stringifier (reader/stringify.py): AST -> source text.                  *)
(***************************************************************************)
RECURSIVE Stringifier_visit(_, _)

RECURSIVE MapVisit(_, _)
\* list(map(self.visit, nodes))
MapVisit(h, nodes) ==
    IF nodes = <<>> THEN <<>>
    ELSE <<Stringifier_visit(h, Head(nodes))>> \o MapVisit(h, Tail(nodes))

RECURSIVE MapVisitPairs(_, _)
\* [f"({self.visit(a)} {self.visit(b)})" for a, b in pairs]
MapVisitPairs(h, pairs) ==
    IF pairs = <<>> THEN <<>>
    ELSE <<LP \o Stringifier_visit(h, Head(pairs)[1]) \o SP
              \o Stringifier_visit(h, Head(pairs)[2]) \o RP>>
         \o MapVisitPairs(h, Tail(pairs))

S_module   == <<"m", "r", "a", "c", "k", "e", "t", ".", "r", "e", "a", "d", "e", "r", ".", "s", "y", "n", "t", "a", "x", ".">>
S_NameNode == <<"R", "a", "c", "k", "e", "t", "N", "a", "m", "e", "N", "o", "d", "e">>
S_LiteralNode == <<"R", "a", "c", "k", "e", "t", "L", "i", "t", "e", "r", "a", "l", "N", "o", "d", "e">>
S_object_at == <<" ", "o", "b", "j", "e", "c", "t", " ", "a", "t", " ">>

\* type(node).__name__ for the classes a name slot is given
ClassName(kind) == IF kind = "literal" THEN S_LiteralNode ELSE S_NameNode

\* repr() of a node object, object.__repr__: the class and the object's
\* address; the address is the object's identity.
Repr(h, n) ==
    <<"<">> \o S_module \o ClassName(h[n].kind) \o S_object_at \o <<ToString(n), ">">>

Stringifier_visit_program_node(h, n) ==
    Stringifier_visit(h, h[n].reader_directive) \o NL
        \o Join(NL, MapVisit(h, h[n].statements))

Stringifier_visit_reader_directive_node(h, n) == h[n].token.source

Stringifier_visit_name_definition_node(h, n) ==
    LP \o S_define \o SP \o h[h[n].name].token.source \o SP
       \o Stringifier_visit(h, h[n].expression) \o RP

Stringifier_visit_structure_definition_node(h, n) ==
    LP \o S_struct \o SP \o Repr(h, h[n].name) \o SP
       \o LP \o Join(SP, MapVisit(h, h[n].fields)) \o RP \o RP

Stringifier_visit_literal_node(h, n) == h[n].token.source

Stringifier_visit_name_node(h, n) == h[n].token.source

Stringifier_visit_cond_node(h, n) ==
    LP \o S_cond \o SP \o Join(SP, MapVisitPairs(h, h[n].branches)) \o RP

Stringifier_visit_lambda_node(h, n) ==
    LP \o S_lambda \o SP \o LP \o Join(SP, MapVisit(h, h[n].variables)) \o RP \o SP
       \o Stringifier_visit(h, h[n].expression) \o RP

Stringifier_visit_let_node(h, n) ==
    LP \o h[n].type \o SP \o LP \o Join(SP, MapVisitPairs(h, h[n].local_definitions)) \o RP
       \o SP \o Stringifier_visit(h, h[n].expression) \o RP

Stringifier_visit_local_node(h, n) ==
    LP \o S_local \o SP \o LP \o Join(SP, MapVisit(h, h[n].definitions)) \o RP \o SP
       \o Stringifier_visit(h, h[n].expression) \o RP

Stringifier_visit_procedure_application_node(h, n) ==
    LP \o Join(SP, MapVisit(h, h[n].expressions)) \o RP

Stringifier_visit_test_case_node(h, n) ==
    LP \o h[n].type \o SP \o Join(SP, MapVisit(h, h[n].expressions)) \o RP

Stringifier_visit_library_require_node(h, n) ==
    LP \o S_require \o SP \o Stringifier_visit(h, h[n].library) \o RP

\* RacketASTVisitor.visit: node.accept_visitor(self), the double dispatch.
Stringifier_visit(h, n) ==
    CASE h[n].kind = "program" -> Stringifier_visit_program_node(h, n)
      [] h[n].kind = "reader_directive" -> Stringifier_visit_reader_directive_node(h, n)
      [] h[n].kind = "name_definition" -> Stringifier_visit_name_definition_node(h, n)
      [] h[n].kind = "structure_definition" -> Stringifier_visit_structure_definition_node(h, n)
      [] h[n].kind = "literal" -> Stringifier_visit_literal_node(h, n)
      [] h[n].kind = "name" -> Stringifier_visit_name_node(h, n)
      [] h[n].kind = "cond" -> Stringifier_visit_cond_node(h, n)
      [] h[n].kind = "lambda" -> Stringifier_visit_lambda_node(h, n)
      [] h[n].kind = "let" -> Stringifier_visit_let_node(h, n)
      [] h[n].kind = "local" -> Stringifier_visit_local_node(h, n)
      [] h[n].kind = "procedure_application" -> Stringifier_visit_procedure_application_node(h, n)
      [] h[n].kind = "test_case" -> Stringifier_visit_test_case_node(h, n)
      [] h[n].kind = "library_require" -> Stringifier_visit_library_require_node(h, n)

(***************************************************************************)
(* Mutation and Mutant (mutation/__init__.py).                             *)
(***************************************************************************)
Mutation(original, replacement, explanation) ==
    [original |-> original, replacement |-> replacement, explanation |-> explanation]

Mutant(mutation, source) == [mutation |-> mutation, source |-> source]

(***************************************************************************)
(* MutationApplier (mutation/applier.py).                                  *)
(*                                                                         *)
(* self = [program |-> id of the root, mutations |-> the list].  A visit   *)
(* is a Python generator; it is run here to its end, threading            *)
(*   st = [h   |-> the object graph,                                       *)
(*         out |-> what has been yielded: the Mutant and the object graph  *)
(*                 at the moment of the yield].                            *)
(***************************************************************************)
\* _get_mutations: the mutations whose original IS the node, in list order.
get_mutations(self, node) ==
    SelectSeq(self.mutations, LAMBDA mut : node = mut.original)

\* yield mutation.Mutant(mut, self.stringifier.visit(self.program))
Yield(self, st, mut) ==
    [st EXCEPT !.out = Append(@, [mutant |-> Mutant(mut, Stringifier_visit(st.h, self.program)),
                                  h |-> st.h])]

RECURSIVE SwapField(_, _, _, _, _)
\* for mut in muts: node.f = mut.replacement; yield Mutant(...)
SwapField(self, st, n, f, muts) ==
    IF muts = <<>> THEN st
    ELSE LET s1 == [st EXCEPT !.h[n][f] = Head(muts).replacement]
         IN  SwapField(self, Yield(self, s1, Head(muts)), n, f, Tail(muts))

\* x = node.f; for mut in self._get_mutations(node.f): ...; node.f = x
FieldSlot(self, st, n, f) ==
    LET x  == st.h[n][f]
        s1 == SwapField(self, st, n, f, get_mutations(self, x))
    IN  [s1 EXCEPT !.h[n][f] = x]

(***************************************************************************)
(* A list-valued slot.  The code takes copy = node.f.copy(), iterates      *)
(* enumerate(node.f), i.e. the list object that node.f names when the loop *)
(* starts, writes through node.f[i], and assigns node.f = copy after each  *)
(* element.  Two list objects are alive:                                   *)
(*   loc.iter  the object being iterated (the original list object),       *)
(*   loc.copy  the object made by .copy(),                                 *)
(* and loc.aliased says node.f still names loc.iter; after the first       *)
(* `node.f = copy` it names loc.copy.  st.h[n][f] is the content of the    *)
(* object node.f names.  pos = 0: the element is a node; pos = 1, 2: the   *)
(* element is a tuple and component pos is rewritten.                      *)
(***************************************************************************)
RECURSIVE SwapElement(_, _, _, _, _, _, _, _, _)
\* for mut in muts: node.f[i] = <replacement at pos>; [yield Mutant(...)]
SwapElement(self, st, n, f, yields, loc, i, pos, muts) ==
    IF muts = <<>> THEN [st |-> st, loc |-> loc]
    ELSE LET repl == Head(muts).replacement
             elem == IF pos = 0 THEN repl ELSE [st.h[n][f][i] EXCEPT ![pos] = repl]
             s1   == [st EXCEPT !.h[n][f][i] = elem]
             loc1 == IF loc.aliased THEN [loc EXCEPT !.iter[i] = elem]
                                    ELSE [loc EXCEPT !.copy[i] = elem]
             s2   == IF yields THEN Yield(self, s1, Head(muts)) ELSE s1
         IN  SwapElement(self, s2, n, f, yields, loc1, i, pos, Tail(muts))

\* node.f = copy
AssignCopy(r, n, f) ==
    [st |-> [r.st EXCEPT !.h[n][f] = r.loc.copy], loc |-> [r.loc EXCEPT !.aliased = FALSE]]

RECURSIVE ListLoop(_, _, _, _, _, _, _)
\* for i, x in enumerate(node.f): for mut in self._get_mutations(x): ...; node.f = copy
ListLoop(self, st, n, f, yields, loc, i) ==
    IF i > Len(loc.iter) THEN st
    ELSE LET x == loc.iter[i]
             r == AssignCopy(SwapElement(self, st, n, f, yields, loc, i, 0,
                                         get_mutations(self, x)), n, f)
         IN  ListLoop(self, r.st, n, f, yields, r.loc, i + 1)

\* copy = node.f.copy(); the loop over the elements of node.f
ListSlot(self, st, n, f, yields) ==
    ListLoop(self, st, n, f, yields,
             [iter |-> st.h[n][f], copy |-> st.h[n][f], aliased |-> TRUE], 1)

RECURSIVE PairLoop(_, _, _, _, _, _)
\* for i, (a, b) in enumerate(node.f):
\*     for mut in self._get_mutations(a): node.f[i] = (mut.replacement, node.f[i][1])
\*     node.f = copy
\*     for mut in self._get_mutations(b): node.f[i] = (node.f[i][0], mut.replacement)
\*     node.f = copy
PairLoop(self, st, n, f, loc, i) ==
    IF i > Len(loc.iter) THEN st
    ELSE LET a  == loc.iter[i][1]
             b  == loc.iter[i][2]
             r1 == AssignCopy(SwapElement(self, st, n, f, FALSE, loc, i, 1,
                                          get_mutations(self, a)), n, f)
             r2 == AssignCopy(SwapElement(self, r1.st, n, f, FALSE, r1.loc, i, 2,
                                          get_mutations(self, b)), n, f)
         IN  PairLoop(self, r2.st, n, f, r2.loc, i + 1)

PairSlot(self, st, n, f) ==
    PairLoop(self, st, n, f, [iter |-> st.h[n][f], copy |-> st.h[n][f], aliased |-> TRUE], 1)

RECURSIVE Flatten(_)
\* itertools.chain.from_iterable(pairs)
Flatten(pairs) ==
    IF pairs = <<>> THEN <<>> ELSE <<Head(pairs)[1], Head(pairs)[2]>> \o Flatten(Tail(pairs))

RECURSIVE MutationApplier_visit(_, _, _)

RECURSIVE VisitChildren(_, _, _)
\* for child_node in children: yield from self.visit(child_node)
VisitChildren(self, st, children) ==
    IF children = <<>> THEN st
    ELSE VisitChildren(self, MutationApplier_visit(self, st, Head(children)), Tail(children))

MutationApplier_visit_program_node(self, st, n) ==
    LET s1 == FieldSlot(self, st, n, "reader_directive")
        s2 == ListSlot(self, s1, n, "statements", TRUE)
    IN  VisitChildren(self, s2, <<s2.h[n].reader_directive>> \o s2.h[n].statements)

MutationApplier_visit_reader_directive_node(self, st, n) == st

MutationApplier_visit_name_definition_node(self, st, n) ==
    LET s1 == FieldSlot(self, st, n, "name")
        s2 == FieldSlot(self, s1, n, "expression")
    IN  VisitChildren(self, s2, <<s2.h[n].name, s2.h[n].expression>>)

MutationApplier_visit_structure_definition_node(self, st, n) ==
    LET s1 == FieldSlot(self, st, n, "name")
        s2 == ListSlot(self, s1, n, "fields", TRUE)
    IN  VisitChildren(self, s2, <<s2.h[n].name>> \o s2.h[n].fields)

MutationApplier_visit_literal_node(self, st, n) == st

MutationApplier_visit_name_node(self, st, n) == st

MutationApplier_visit_cond_node(self, st, n) ==
    LET s1 == PairSlot(self, st, n, "branches")
    IN  VisitChildren(self, s1, Flatten(s1.h[n].branches))

MutationApplier_visit_lambda_node(self, st, n) ==
    LET s1 == ListSlot(self, st, n, "variables", FALSE)
        s2 == FieldSlot(self, s1, n, "expression")
    IN  VisitChildren(self, s2, s2.h[n].variables \o <<s2.h[n].expression>>)

MutationApplier_visit_let_node(self, st, n) ==
    LET s1 == PairSlot(self, st, n, "local_definitions")
        s2 == FieldSlot(self, s1, n, "expression")
    IN  VisitChildren(self, s2, Flatten(s2.h[n].local_definitions) \o <<s2.h[n].expression>>)

MutationApplier_visit_local_node(self, st, n) ==
    LET s1 == ListSlot(self, st, n, "definitions", FALSE)
        s2 == FieldSlot(self, s1, n, "expression")
    IN  VisitChildren(self, s2, s2.h[n].definitions \o <<s2.h[n].expression>>)

MutationApplier_visit_procedure_application_node(self, st, n) ==
    LET s1 == ListSlot(self, st, n, "expressions", TRUE)
    IN  VisitChildren(self, s1, s1.h[n].expressions)

MutationApplier_visit_test_case_node(self, st, n) ==
    LET s1 == ListSlot(self, st, n, "expressions", TRUE)
    IN  VisitChildren(self, s1, s1.h[n].expressions)

MutationApplier_visit_library_require_node(self, st, n) ==
    LET library == st.h[n].library
        s1 == FieldSlot(self, st, n, "library")
    IN  VisitChildren(self, s1, <<library>>)

\* RacketASTVisitor.visit: node.accept_visitor(self)
MutationApplier_visit(self, st, n) ==
    CASE st.h[n].kind = "program" -> MutationApplier_visit_program_node(self, st, n)
      [] st.h[n].kind = "reader_directive" -> MutationApplier_visit_reader_directive_node(self, st, n)
      [] st.h[n].kind = "name_definition" -> MutationApplier_visit_name_definition_node(self, st, n)
      [] st.h[n].kind = "structure_definition" ->
             MutationApplier_visit_structure_definition_node(self, st, n)
      [] st.h[n].kind = "literal" -> MutationApplier_visit_literal_node(self, st, n)
      [] st.h[n].kind = "name" -> MutationApplier_visit_name_node(self, st, n)
      [] st.h[n].kind = "cond" -> MutationApplier_visit_cond_node(self, st, n)
      [] st.h[n].kind = "lambda" -> MutationApplier_visit_lambda_node(self, st, n)
      [] st.h[n].kind = "let" -> MutationApplier_visit_let_node(self, st, n)
      [] st.h[n].kind = "local" -> MutationApplier_visit_local_node(self, st, n)
      [] st.h[n].kind = "procedure_application" ->
             MutationApplier_visit_procedure_application_node(self, st, n)
      [] st.h[n].kind = "test_case" -> MutationApplier_visit_test_case_node(self, st, n)
      [] st.h[n].kind = "library_require" -> MutationApplier_visit_library_require_node(self, st, n)

\* apply_mutations: yield from self.visit(self.program), run to exhaustion on h
apply_mutations(self, h) ==
    MutationApplier_visit(self, [h |-> h, out |-> <<>>], self.program)

(***************************************************************************)
(* The programs the applier is run on.  Node 1 is the root.  Nodes 90 and  *)
(* 91 are freshly built replacement nodes, in no slot of the program.      *)
(***************************************************************************)
Root == 1

Replacements == {90, 91}

ReplacementNodes == 90 :> RacketNameNode(<<"-">>) @@ 91 :> RacketLiteralNode(S_false)

\* #lang racket
\* (+ 1 (and (or #t)))
\* (f 2)
ProgramApplications ==
    1 :> RacketProgramNode(2, <<3, 11>>) @@
    2 :> RacketReaderDirectiveNode(S_lang) @@
    3 :> RacketProcedureApplicationNode(<<4, 5, 6>>) @@
    4 :> RacketNameNode(<<"+">>) @@
    5 :> RacketLiteralNode(<<"1">>) @@
    6 :> RacketProcedureApplicationNode(<<7, 8>>) @@
    7 :> RacketNameNode(S_and) @@
    8 :> RacketProcedureApplicationNode(<<9, 10>>) @@
    9 :> RacketNameNode(S_or) @@
    10 :> RacketLiteralNode(S_true) @@
    11 :> RacketProcedureApplicationNode(<<12, 13>>) @@
    12 :> RacketNameNode(<<"f">>) @@
    13 :> RacketLiteralNode(<<"2">>) @@
    ReplacementNodes

\* #lang racket
\* (define f (lambda (x y) (cond (x 1) (else y))))
\* (check-expect (f 1) 1)
ProgramDefinition ==
    1 :> RacketProgramNode(2, <<3, 13>>) @@
    2 :> RacketReaderDirectiveNode(S_lang) @@
    3 :> RacketNameDefinitionNode(4, 5) @@
    4 :> RacketNameNode(<<"f">>) @@
    5 :> RacketLambdaNode(<<6, 7>>, 8) @@
    6 :> RacketNameNode(<<"x">>) @@
    7 :> RacketNameNode(<<"y">>) @@
    8 :> RacketCondNode(<<<<9, 10>>, <<11, 12>>>>) @@
    9 :> RacketNameNode(<<"x">>) @@
    10 :> RacketLiteralNode(<<"1">>) @@
    11 :> RacketNameNode(S_else) @@
    12 :> RacketNameNode(<<"y">>) @@
    13 :> RacketTestCaseNode(S_check, <<14, 17>>) @@
    14 :> RacketProcedureApplicationNode(<<15, 16>>) @@
    15 :> RacketNameNode(<<"f">>) @@
    16 :> RacketLiteralNode(<<"1">>) @@
    17 :> RacketLiteralNode(<<"1">>) @@
    ReplacementNodes

\* #lang racket
\* (require lib)
\* (define-struct p (a b))
\* (let ((u 1) (v 2)) (local ((define w 3) (define z 4)) w))
ProgramBindings ==
    1 :> RacketProgramNode(2, <<3, 5, 9>>) @@
    2 :> RacketReaderDirectiveNode(S_lang) @@
    3 :> RacketLibraryRequireNode(4) @@
    4 :> RacketNameNode(S_lib) @@
    5 :> RacketStructureDefinitionNode(6, <<7, 8>>) @@
    6 :> RacketNameNode(<<"p">>) @@
    7 :> RacketNameNode(<<"a">>) @@
    8 :> RacketNameNode(<<"b">>) @@
    9 :> RacketLetNode(S_let, <<<<10, 11>>, <<12, 13>>>>, 14) @@
    10 :> RacketNameNode(<<"u">>) @@
    11 :> RacketLiteralNode(<<"1">>) @@
    12 :> RacketNameNode(<<"v">>) @@
    13 :> RacketLiteralNode(<<"2">>) @@
    14 :> RacketLocalNode(<<15, 18>>, 21) @@
    15 :> RacketNameDefinitionNode(16, 17) @@
    16 :> RacketNameNode(<<"w">>) @@
    17 :> RacketLiteralNode(<<"3">>) @@
    18 :> RacketNameDefinitionNode(19, 20) @@
    19 :> RacketNameNode(<<"z">>) @@
    20 :> RacketLiteralNode(<<"4">>) @@
    21 :> RacketNameNode(<<"w">>) @@
    ReplacementNodes

Programs == {ProgramApplications, ProgramDefinition, ProgramBindings}

\* The nodes a slot of node n holds, in the order of the node's child list.
Children(h, n) ==
    CASE h[n].kind = "program" -> <<h[n].reader_directive>> \o h[n].statements
      [] h[n].kind = "name_definition" -> <<h[n].name, h[n].expression>>
      [] h[n].kind = "structure_definition" -> <<h[n].name>> \o h[n].fields
      [] h[n].kind = "cond" -> Flatten(h[n].branches)
      [] h[n].kind = "lambda" -> h[n].variables \o <<h[n].expression>>
      [] h[n].kind = "let" -> Flatten(h[n].local_definitions) \o <<h[n].expression>>
      [] h[n].kind = "local" -> h[n].definitions \o <<h[n].expression>>
      [] h[n].kind = "procedure_application" -> h[n].expressions
      [] h[n].kind = "test_case" -> h[n].expressions
      [] h[n].kind = "library_require" -> <<h[n].library>>
      [] OTHER -> <<>>

Range(s) == {s[i] : i \in DOMAIN s}

RECURSIVE Descendants(_, _)
\* the nodes held in a slot of n or of a node below n
Descendants(h, n) ==
    LET cs == Range(Children(h, n))
    IN  cs \cup UNION {Descendants(h, c) : c \in cs}

MaxMutations == 2

\* The lists of at most MaxMutations mutations on h: the original is a node in
\* a slot of the program, the replacement a fresh node; explanation tells the
\* Mutation objects of one list apart.
MutationLists(h) ==
    LET M == Descendants(h, Root) \X Replacements
        Lists == UNION {[1..k -> M] : k \in 0..MaxMutations}
    IN  {[i \in DOMAIN l |-> Mutation(l[i][1], l[i][2], i)] : l \in Lists}

(***************************************************************************)
(* Specification SpecApplier: a MutationApplier is constructed on a parsed *)
(* program and a list of mutations, and the generator apply_mutations() is *)
(* consumed one Mutant at a time.                                          *)
(***************************************************************************)
\* No Mutator has been constructed.
MutatorIdle == mutator = [kind |-> "none"] /\ mpc = "none"

\* Part V at rest: nothing is read
ReaderIdle ==
    /\ input_statements = <<>> /\ source0 = <<>> /\ tokenized_source = <<>>
    /\ lexer_object = [kind |-> "none"] /\ yielded_tokens = <<>> /\ lpc = "none"
    /\ lexer_error = [kind |-> "none"]
    /\ parsed = <<>> /\ stringified = <<>> /\ round = 0

\* No ProgramOutput is being constructed on its own.
OutputIdle == po_stdout = <<>> /\ po = [kind |-> "none"]

\* RunnerSuccess.__init__: nothing evaluated, score not asked for
EvalIdle ==
    /\ epc = "none"
    /\ evaluated_mutant_results = <<>>
    /\ n_killed = 0
    /\ n_execution_error = 0
    /\ score = [kind |-> "none"]
    /\ mutant_results = "None"
    /\ counters = [total |-> 0, killed |-> 0, execution_error |-> 0]
    /\ call = [kind |-> "none"]
    /\ calls = <<>>

\* No Runner has been constructed.
RunnerIdle ==
    /\ file = [exists |-> FALSE]
    /\ now = 0
    /\ programs = <<>>
    /\ killed = {}
    /\ tempfiles = {}
    /\ rpc = "returned"
    /\ result = [kind |-> "none"]
    /\ unmodified = [kind |-> "none"]
    /\ mutant_stream = <<>>
    /\ gpc = "none"
    /\ process_count = 0
    /\ running_programs = <<>>
    /\ it = 0
    /\ outputs = <<>>
    /\ timed_out = {}
    /\ EvalIdle

Self == [program |-> Root, mutations |-> mutations]

\* The generator's whole run from the constructed state; it is deterministic,
\* so its k-th suspension is the k-th element of out.
Run == apply_mutations(Self, ast0)

InitApplier ==
    /\ ast0 \in Programs
    /\ ast = ast0
    /\ mutations \in MutationLists(ast0)
    /\ mutants = <<>>
    /\ apc = "created"
    /\ RunnerIdle
    /\ OutputIdle
    /\ MutatorIdle
    /\ ReaderIdle

\* next(gen) runs the generator to its next yield: the slot holds the
\* replacement while the generator is suspended there.
NextMutant ==
    /\ apc \in {"created", "suspended"}
    /\ Len(mutants) < Len(Run.out)
    /\ mutants' = Append(mutants, Run.out[Len(mutants) + 1].mutant)
    /\ ast' = Run.out[Len(mutants) + 1].h
    /\ apc' = "suspended"
    /\ UNCHANGED <<ast0, mutations>>
    /\ UNCHANGED notApplierVars

\* next(gen) runs the generator to its end: StopIteration.
Exhaust ==
    /\ apc \in {"created", "suspended"}
    /\ Len(mutants) = Len(Run.out)
    /\ ast' = Run.h
    /\ apc' = "exhausted"
    /\ UNCHANGED <<ast0, mutations, mutants>>
    /\ UNCHANGED notApplierVars

NextApplier == NextMutant \/ Exhaust

SpecApplier == InitApplier /\ [][NextApplier]_vars

\* the program text with the one node original replaced by replacement
Replace(h, original, replacement) ==
    LET sub(x) == IF x = original THEN replacement ELSE x
        subs(xs) == [i \in DOMAIN xs |-> sub(xs[i])]
        subp(ps) == [i \in DOMAIN ps |-> <<sub(ps[i][1]), sub(ps[i][2])>>]
        node(r) ==
            CASE r.kind = "program" ->
                     [r EXCEPT !.reader_directive = sub(@), !.statements = subs(@)]
              [] r.kind = "name_definition" -> [r EXCEPT !.name = sub(@), !.expression = sub(@)]
              [] r.kind = "structure_definition" -> [r EXCEPT !.name = sub(@), !.fields = subs(@)]
              [] r.kind = "cond" -> [r EXCEPT !.branches = subp(@)]
              [] r.kind = "lambda" -> [r EXCEPT !.variables = subs(@), !.expression = sub(@)]
              [] r.kind = "let" ->
                     [r EXCEPT !.local_definitions = subp(@), !.expression = sub(@)]
              [] r.kind = "local" -> [r EXCEPT !.definitions = subs(@), !.expression = sub(@)]
              [] r.kind = "procedure_application" -> [r EXCEPT !.expressions = subs(@)]
              [] r.kind = "test_case" -> [r EXCEPT !.expressions = subs(@)]
              [] r.kind = "library_require" -> [r EXCEPT !.library = sub(@)]
              [] OTHER -> r
    IN  [n \in DOMAIN h |-> node(h[n])]

\* C1: once the sequence returned by apply_mutations() has been fully
\* consumed, every slot of the AST holds the node object it held before.
C1_AstRestored == apc = "exhausted" => ast = ast0

\* C2: the applier yields exactly one Mutant for every mutation whose original
\* is reachable from the program root, and no other mutant.
C2_OneMutantPerMutation ==
    apc = "exhausted" =>
        /\ \A k \in DOMAIN mutations :
               mutations[k].original \in Descendants(ast0, Root) =>
                   Cardinality({j \in DOMAIN mutants : mutants[j].mutation = mutations[k]}) = 1
        /\ \A j \in DOMAIN mutants :
               \E k \in DOMAIN mutations :
                   /\ mutants[j].mutation = mutations[k]
                   /\ mutations[k].original \in Descendants(ast0, Root)

\* C3: every Mutant's source is the stringification of the original AST in
\* which only mutation.original is replaced by mutation.replacement.
C3_SingleSite ==
    \A j \in DOMAIN mutants :
        mutants[j].source =
            Stringifier_visit(Replace(ast0, mutants[j].mutation.original,
                                      mutants[j].mutation.replacement), Root)

(***************************************************************************)
(*                          Part II: the Runner                            *)
(***************************************************************************)

(***************************************************************************)
(* ProgramOutput (runner/output.py): the test report in the interpreter's  *)
(* stdout.  stdout is the sequence of the report phrases it contains, in   *)
(* the order of the text:                                                  *)
(*   [form |-> "the_test_passed"]          The test passed!                *)
(*   [form |-> "both_tests_passed"]        Both tests passed!              *)
(*   [form |-> "tests_passed", n |-> N]    N tests passed!                 *)
(*   [form |-> "ran", n |-> N]             Ran N test(s).                  *)
(*   [form |-> "zero_tests_passed"]        0 tests passed.                 *)
(*   [form |-> "tests_failed", a, b]       A of the B tests failed.        *)
(***************************************************************************)
Forms(stdout, form) == {i \in DOMAIN stdout : stdout[i].form = form}

First(S) == CHOOSE i \in S : \A j \in S : i <= j

\* the positions of a "Ran N test" that some "0 tests passed." follows
RanThenZero(stdout) ==
    {i \in Forms(stdout, "ran") : \E j \in Forms(stdout, "zero_tests_passed") : j > i}

\* ProgramOutput with the rules for failures tried before those for passes
ProgramOutput_failures_first(stdout) ==
    IF RanThenZero(stdout) # {}
        THEN [passed |-> 0, failed |-> stdout[First(RanThenZero(stdout))].n]
    ELSE IF Forms(stdout, "tests_failed") # {}
        THEN LET m == stdout[First(Forms(stdout, "tests_failed"))]
             IN  [passed |-> m.b - m.a, failed |-> m.a]
    ELSE IF Forms(stdout, "the_test_passed") # {} THEN [passed |-> 1, failed |-> 0]
    ELSE IF Forms(stdout, "both_tests_passed") # {} THEN [passed |-> 2, failed |-> 0]
    ELSE IF Forms(stdout, "tests_passed") # {}
        THEN [passed |-> stdout[First(Forms(stdout, "tests_passed"))].n, failed |-> 0]
    ELSE [passed |-> 0, failed |-> 0]

ProgramOutput(stdout) ==
    IF Forms(stdout, "the_test_passed") # {} THEN [passed |-> 1, failed |-> 0]
    ELSE IF Forms(stdout, "both_tests_passed") # {} THEN [passed |-> 2, failed |-> 0]
    ELSE IF Forms(stdout, "tests_passed") # {}
        THEN [passed |-> stdout[First(Forms(stdout, "tests_passed"))].n, failed |-> 0]
    ELSE IF RanThenZero(stdout) # {}
        THEN [passed |-> 0, failed |-> stdout[First(RanThenZero(stdout))].n]
    ELSE IF Forms(stdout, "tests_failed") # {}
        THEN LET m == stdout[First(Forms(stdout, "tests_failed"))]
             IN  [passed |-> m.b - m.a, failed |-> m.a]
    ELSE [passed |-> 0, failed |-> 0]

\* MutantOutput(mut, returncode, stdout, stderr)
MutantOutput(mut, returncode, stdout, stderr) ==
    [mutation |-> mut, returncode |-> returncode, stdout |-> stdout, stderr |-> stderr,
     passed |-> ProgramOutput(stdout).passed, failed |-> ProgramOutput(stdout).failed]

(***************************************************************************)
(* RunnerFailure.Reason (runner/result.py): the members of the enum and    *)
(* their values.                                                           *)
(***************************************************************************)
Reason ==
    [READER_ERROR |-> "Reader unable to read program",
     NOT_DRRACKETY |-> "Program missing DrRacket prefix",
     NOT_WELL_FORMED_PROGRAM |-> "Program not well-formed",
     NON_ZERO_MUTANT_RETURNCODE |-> "Non-zero returncode when running mutant",
     NON_ZERO_UNMODIFIED_RETURNCODE |-> "Non-zero returncode when running unmodified source",
     UNKNOWN_ERROR |-> "Unknown error",
     UNMODIFIED_TEST_FAILURE |-> "Test failure when running unmodified source"]

\* What an expression evaluates to: a value, or an exception raised.
Value(v) == [exc |-> "none", value |-> v]

AttributeError == [exc |-> "AttributeError"]

\* raise result.RunnerFailure(reason=result.RunnerFailure.Reason.<member>):
\* looking up a name the enum does not define raises AttributeError.
RaiseRunnerFailure(member) ==
    IF member \in DOMAIN Reason THEN [exc |-> "RunnerFailure", reason |-> member]
    ELSE AttributeError

\* RunnerResult.score, which RunnerFailure inherits: the placeholder score
RunnerResult_score == [total |-> -1, killed |-> -1, execution_error |-> -1]

\* RunnerFailure, as Runner.result
RunnerFailure(reason) ==
    [kind |-> "failure", execution_succeeded |-> FALSE, reason |-> reason,
     score |-> RunnerResult_score]

\* RunnerSuccess, as Runner.result: mutant_results is the generator run_mutants
RunnerSuccess == [kind |-> "success", execution_succeeded |-> TRUE]

(***************************************************************************)
(* TemporaryRacketProgram and its child process.                           *)
(*                                                                         *)
(* How the interpreter behaves on a source is an input: behaviour =        *)
(*   [runtime    |-> {ticks from the spawn to the exit}, {} for never,     *)
(*    returncode, stdout, stderr |-> what the process ends with].          *)
(***************************************************************************)
MAX_PROCESS_COUNT == 100

TIMEOUT == 10

\* time.sleep(0.1): ticks in a second
TicksPerSecond == 10

None == "None"

\* TemporaryRacketProgram.__init__: the object; writing the file and Popen
\* are in Spawn.
TemporaryRacketProgram(mut, behaviour, starttime) ==
    [mut |-> mut, behaviour |-> behaviour, starttime |-> starttime]

\* the child has exited by itself at time t
Exited(program, t) ==
    \E runtime \in program.behaviour.runtime : t - program.starttime >= runtime

\* process.poll() is not None, at time t, for a process kill() was not called on
Poll(program, t) == Exited(program, t)

\* TemporaryRacketProgram.finished, at time t
Finished(program, t) ==
    IF t - program.starttime > TIMEOUT * TicksPerSecond
    THEN RaiseRunnerFailure("TIMEOUT")
    ELSE Value(Poll(program, t))

\* the child process of program id is running: spawned, not exited, not killed
Alive(id) ==
    /\ id \in DOMAIN programs
    /\ id \notin killed
    /\ ~Exited(programs[id], now)

(***************************************************************************)
(* Inputs.                                                                 *)
(***************************************************************************)
StdoutPassed == <<[form |-> "both_tests_passed"]>>

StdoutFailed == <<[form |-> "ran", n |-> 2], [form |-> "tests_failed", a |-> 1, b |-> 2]>>

Behaviour(runtime, returncode, stdout, stderr) ==
    [runtime |-> runtime, returncode |-> returncode, stdout |-> stdout, stderr |-> stderr]

\* all tests pass / a test fails / the interpreter reports an error / the
\* interpreter never exits
Passes(runtime) == Behaviour({runtime}, 0, StdoutPassed, "")

Fails(runtime) == Behaviour({runtime}, 0, StdoutFailed, "")

Crashes(runtime) == Behaviour({runtime}, 1, <<>>, "error")

Hangs == Behaviour({}, 0, <<>>, "")

\* the longest a child runs before it exits by itself, in ticks, unless it hangs
MaxRuntime == 2

\* How the unmodified program can run.
UnmodifiedBehaviours ==
    {Passes(0), Passes(MaxRuntime), Fails(0), Crashes(0),
     Behaviour({0}, 1, StdoutFailed, ""),        \* exit code 1, a failed test, no stderr
     Behaviour({0}, 0, StdoutPassed, "warning"), \* exit code 0, but stderr
     Hangs}

\* The input files: a missing one, and the existing ones by whether the text
\* starts with DRRACKET_PREFIX, whether the reader accepts it, and how the
\* interpreter runs it.
Files ==
    {[exists |-> FALSE]} \cup
    [exists : {TRUE}, drracket : BOOLEAN, reader_ok : BOOLEAN, behaviour : UnmodifiedBehaviours]

\* How a mutant can run.
MutantBehaviours == {Passes(0), Fails(0), Crashes(0), Passes(MaxRuntime), Hangs}

MaxMutants == 2

\* The streams of mutants apply_mutations can hand to run_mutants: every
\* stream of at most MaxMutants mutants, and the stream of
\* MAX_PROCESS_COUNT + 1 mutants that all hang.  The mutation of the i-th
\* mutant is i.
Streams ==
    LET short == UNION {[1..k -> MutantBehaviours] : k \in 0..MaxMutants}
        long  == [i \in 1..(MAX_PROCESS_COUNT + 1) |-> Hangs]
    IN  {[i \in DOMAIN b |-> [mutation |-> i, behaviour |-> b[i]]] : b \in short \cup {long}}

\* time.sleep(0.1) returns after 0.1 s, or later
SleepTicks == {1, TIMEOUT * TicksPerSecond + 1}

(***************************************************************************)
(* Runner.run (runner/__init__.py).                                        *)
(***************************************************************************)
\* TemporaryRacketProgram(source, mut): write the temp file, Popen, starttime
Spawn(id, mut, behaviour) ==
    /\ programs' = (id :> TemporaryRacketProgram(mut, behaviour, now)) @@ programs
    /\ tempfiles' = tempfiles \cup {id}

\* program.delete(): self.process.kill(); os.remove(self.filepath)
Delete(id) ==
    /\ killed' = killed \cup {id}
    /\ tempfiles' = tempfiles \ {id}

\* run_unmodified's checks with the test report looked at first
run_unmodified_checks_report_first(out) ==
    IF ProgramOutput(out.stdout).failed > 0
    THEN RaiseRunnerFailure("UNMODIFIED_TEST_FAILURE")
    ELSE IF out.returncode # 0 \/ out.stderr # ""
    THEN RaiseRunnerFailure("NON_ZERO_UNMODIFIED_RETURNCODE")
    ELSE Value(ProgramOutput(out.stdout))

\* run_unmodified, after the loop: the checks on what the program ended with
run_unmodified_checks(out) ==
    IF out.returncode # 0 \/ out.stderr # ""
    THEN RaiseRunnerFailure("NON_ZERO_UNMODIFIED_RETURNCODE")
    ELSE IF ProgramOutput(out.stdout).failed > 0
    THEN RaiseRunnerFailure("UNMODIFIED_TEST_FAILURE")
    ELSE Value(ProgramOutput(out.stdout))

\* build_syntax_tree
build_syntax_tree(f) ==
    IF ~f.drracket THEN RaiseRunnerFailure("NOT_DRRACKETY")
    ELSE IF ~f.reader_ok THEN RaiseRunnerFailure("READER_ERROR")
    ELSE Value("program")

\* Runner.run, from the end of run_unmodified's loop to the end of the try
\* statement: what is raised, if anything
run_rest(f, out) ==
    IF run_unmodified_checks(out).exc # "none" THEN run_unmodified_checks(out)
    ELSE build_syntax_tree(f)

\* the except clauses of Runner.run: the result for an exception
run_except(e) ==
    IF e.exc = "RunnerFailure" THEN RunnerFailure(e.reason)
    ELSE RunnerFailure("UNKNOWN_ERROR")

\* No MutationApplier has been constructed.
ApplierIdle ==
    /\ ast = <<>>
    /\ ast0 = <<>>
    /\ mutations = <<>>
    /\ mutants = <<>>
    /\ apc = "none"

InitRunner ==
    /\ file \in Files
    /\ now = 0
    /\ programs = <<>>
    /\ killed = {}
    /\ tempfiles = {}
    /\ rpc = "init"
    /\ result = [kind |-> "none"]
    /\ unmodified = [kind |-> "none"]
    /\ mutant_stream = <<>>
    /\ gpc = "none"
    /\ process_count = 0
    /\ running_programs = <<>>
    /\ it = 0
    /\ outputs = <<>>
    /\ timed_out = {}
    /\ EvalIdle
    /\ ApplierIdle
    /\ OutputIdle
    /\ MutatorIdle
    /\ ReaderIdle

schedulerVars == <<mutant_stream, gpc, process_count, running_programs, it, outputs>>

\* run(): check_file_exists fails: FileNotFoundError, caught by the last clause
RunFileNotFound ==
    /\ rpc = "init"
    /\ ~file.exists
    /\ result' = run_except([exc |-> "FileNotFoundError"])
    /\ rpc' = "returned"
    /\ UNCHANGED <<file, now, programs, killed, tempfiles, unmodified, timed_out>>
    /\ UNCHANGED schedulerVars
    /\ UNCHANGED evalVars
    /\ UNCHANGED notRunnerVars

\* run(): the file is read and run_unmodified starts the unmodified program
RunUnmodifiedSpawn ==
    /\ rpc = "init"
    /\ file.exists
    /\ Spawn(0, None, file.behaviour)
    /\ rpc' = "unmodified"
    /\ UNCHANGED <<file, now, killed, result, unmodified, timed_out>>
    /\ UNCHANGED schedulerVars
    /\ UNCHANGED evalVars
    /\ UNCHANGED notRunnerVars

\* run_unmodified's loop: program.finished is False; time.sleep(0.1)
RunUnmodifiedSleep ==
    /\ rpc = "unmodified"
    /\ Finished(programs[0], now) = Value(FALSE)
    /\ \E d \in SleepTicks : now' = now + d
    /\ UNCHANGED <<file, programs, killed, tempfiles, rpc, result, unmodified, timed_out>>
    /\ UNCHANGED schedulerVars
    /\ UNCHANGED evalVars
    /\ UNCHANGED notRunnerVars

\* run_unmodified's loop: program.finished raises; run() catches it
RunUnmodifiedRaises ==
    /\ rpc = "unmodified"
    /\ Finished(programs[0], now).exc # "none"
    /\ timed_out' = timed_out \cup {0}
    /\ result' = run_except(Finished(programs[0], now))
    /\ rpc' = "returned"
    /\ UNCHANGED <<file, now, programs, killed, tempfiles, unmodified>>
    /\ UNCHANGED schedulerVars
    /\ UNCHANGED evalVars
    /\ UNCHANGED notRunnerVars

\* run_unmodified's loop: program.finished is True; program.delete(); the
\* result is read and checked; then build_syntax_tree, generate_mutations,
\* apply_mutations and run_mutants, which makes the generator and runs none of
\* its body; the result is the RunnerSuccess, or the RunnerFailure raised.
RunUnmodifiedFinished ==
    /\ rpc = "unmodified"
    /\ Finished(programs[0], now) = Value(TRUE)
    /\ Delete(0)
    /\ LET b   == programs[0].behaviour
           out == [kind |-> "read", returncode |-> b.returncode, stdout |-> b.stdout,
                   stderr |-> b.stderr]
           e   == run_rest(file, out)
       IN  /\ unmodified' = out
           /\ IF e.exc = "none"
              THEN /\ result' = RunnerSuccess
                   /\ gpc' = "top"
                   /\ mutant_stream' \in Streams
                   /\ mutant_results' = "generator"
              ELSE /\ result' = run_except(e)
                   /\ UNCHANGED <<gpc, mutant_stream, mutant_results>>
    /\ rpc' = "returned"
    /\ UNCHANGED <<file, now, programs, timed_out>>
    /\ UNCHANGED <<process_count, running_programs, it, outputs>>
    /\ UNCHANGED <<epc, evaluated_mutant_results, n_killed, n_execution_error, score,
                   counters, call, calls>>
    /\ UNCHANGED notRunnerVars

(***************************************************************************)
(* Runner.run_mutants: the generator behind RunnerSuccess.mutant_results.  *)
(* gpc is where its body stands: "top" (the top of the first loop), "for"  *)
(* (in its for loop), "drain_top" and "drain_for" (the same for the second *)
(* loop), "done" (it returned) or "raised" (an exception left it).  it is  *)
(* the index of the list iterator of the for loop.                         *)
(***************************************************************************)
\* how many mutants next(mutants) has handed out
Taken == Cardinality(DOMAIN programs \ {0})

\* running_programs.remove(program)
Remove(seq, id) == SelectSeq(seq, LAMBDA x : x # id)

\* The body of the generator runs while the for loop of _evaluate_mutants
\* waits in next() for a result: after the call, and after the loop body has
\* dealt with the last result yielded.
Iterating == epc = "iterating" /\ Len(evaluated_mutant_results) = Len(outputs)

\* the top of `while True`: under the cap, next(mutants) and a new program,
\* or StopIteration, which leaves the loop
RunMutantsLoopTop ==
    /\ gpc = "top"
    /\ Iterating
    /\ IF process_count < MAX_PROCESS_COUNT
       THEN IF Taken < Len(mutant_stream)
            THEN LET mutant == mutant_stream[Taken + 1]
                 IN  /\ Spawn(mutant.mutation, mutant.mutation, mutant.behaviour)
                     /\ running_programs' = Append(running_programs, mutant.mutation)
                     /\ gpc' = "for"
            ELSE /\ gpc' = "drain_top"
                 /\ UNCHANGED <<programs, tempfiles, running_programs>>
       ELSE /\ gpc' = "for"
            /\ UNCHANGED <<programs, tempfiles, running_programs>>
    /\ it' = 0
    /\ UNCHANGED <<file, now, killed, rpc, result, unmodified, timed_out>>
    /\ UNCHANGED <<mutant_stream, process_count, outputs>>
    /\ UNCHANGED evalVars
    /\ UNCHANGED notRunnerVars

\* `while len(running_programs) > 0`
RunMutantsDrainTop ==
    /\ gpc = "drain_top"
    /\ Iterating
    /\ gpc' = IF Len(running_programs) > 0 THEN "drain_for" ELSE "done"
    /\ it' = 0
    /\ UNCHANGED <<file, now, programs, killed, tempfiles, rpc, result, unmodified, timed_out>>
    /\ UNCHANGED <<mutant_stream, process_count, running_programs, outputs>>
    /\ UNCHANGED evalVars
    /\ UNCHANGED notRunnerVars

\* one turn of `for program in running_programs`, in either loop
RunMutantsPoll ==
    /\ gpc \in {"for", "drain_for"}
    /\ Iterating
    /\ it < Len(running_programs)
    /\ LET id       == running_programs[it + 1]
           program  == programs[id]
           finished == Finished(program, now)
       IN  /\ timed_out' = IF now - program.starttime > TIMEOUT * TicksPerSecond
                           THEN timed_out \cup {id} ELSE timed_out
           /\ CASE finished.exc = "RunnerFailure" ->
                    \* except result.RunnerFailure as e
                    /\ running_programs' = Remove(running_programs, id)
                    /\ Delete(id)
                    /\ outputs' = Append(outputs,
                           MutantOutput(program.mut, None, <<>>, Reason[finished.reason]))
                    /\ UNCHANGED gpc
                [] finished.exc = "AttributeError" ->
                    \* no except clause of the generator matches
                    /\ gpc' = "raised"
                    /\ UNCHANGED <<running_programs, killed, tempfiles, outputs>>
                [] finished = Value(TRUE) ->
                    /\ running_programs' = Remove(running_programs, id)
                    /\ Delete(id)
                    /\ outputs' = Append(outputs,
                           MutantOutput(program.mut, program.behaviour.returncode,
                                        program.behaviour.stdout, program.behaviour.stderr))
                    /\ UNCHANGED gpc
                [] finished = Value(FALSE) ->
                    UNCHANGED <<gpc, running_programs, killed, tempfiles, outputs>>
    /\ it' = it + 1
    /\ UNCHANGED <<file, now, programs, rpc, result, unmodified>>
    /\ UNCHANGED <<mutant_stream, process_count>>
    /\ UNCHANGED evalVars
    /\ UNCHANGED notRunnerVars

\* the for loop is over: time.sleep(0.1), and back to the top of the loop
RunMutantsSleep ==
    /\ gpc \in {"for", "drain_for"}
    /\ Iterating
    /\ it >= Len(running_programs)
    /\ \E d \in SleepTicks : now' = now + d
    /\ gpc' = IF gpc = "for" THEN "top" ELSE "drain_top"
    /\ UNCHANGED <<file, programs, killed, tempfiles, rpc, result, unmodified, timed_out>>
    /\ UNCHANGED <<mutant_stream, process_count, running_programs, it, outputs>>
    /\ UNCHANGED evalVars
    /\ UNCHANGED notRunnerVars

(***************************************************************************)
(* RunnerSuccess.score and RunnerSuccess._evaluate_mutants                 *)
(* (runner/result.py).  The for loop of _evaluate_mutants is what drives   *)
(* the generator run_mutants.                                              *)
(***************************************************************************)
\* MutationScore(total, killed, execution_error)
MutationScore(total, n_k, n_e) ==
    [kind |-> "MutationScore", total |-> total, killed |-> n_k, execution_error |-> n_e]

\* obj.name: the attribute, or AttributeError when the object has none of
\* that name
GetAttr(obj, name) ==
    IF name \in DOMAIN obj THEN Value(obj[name]) ELSE AttributeError

\* _evaluate_mutants, the body of the loop after the append: which counter
\* the result adds to, or the exception raised
evaluate_mutant(r) ==
    IF r.stderr # "" THEN Value("execution_error")
    ELSE IF GetAttr(r, "failures").exc # "none" THEN GetAttr(r, "failures")
    ELSE IF Len(GetAttr(r, "failures").value) > 0 THEN Value("killed")
    ELSE Value("survived")

\* to_dict, the entry of one evaluated result: the key it gets besides
\* "explanation", or the exception raised
to_dict_entry(r) ==
    IF r.stderr # "" THEN Value("execution_error")
    ELSE IF GetAttr(r, "failures").exc # "none" THEN GetAttr(r, "failures")
    ELSE IF Len(GetAttr(r, "failures").value) > 0 THEN Value("killed")
    ELSE Value("survived")

\* the most calls of score and to_dict on one RunnerSuccess
MaxCalls == 3

\* what a call gave: the three numbers of the MutationScore or of the
\* "summary", for to_dict the "mutations" list too, or the exception raised
Outcome(kind, c, evaluated) ==
    LET entries == [j \in DOMAIN evaluated |-> to_dict_entry(evaluated[j])]
    IN  IF kind = "to_dict" /\ \E j \in DOMAIN entries : entries[j].exc # "none"
        THEN [call |-> kind, exc |-> "AttributeError", total |-> 0, killed |-> 0,
              execution_error |-> 0, mutations |-> <<>>]
        ELSE [call |-> kind, exc |-> "none", total |-> c.total, killed |-> c.killed,
              execution_error |-> c.execution_error,
              mutations |-> IF kind = "score" THEN <<>>
                            ELSE [j \in DOMAIN evaluated |->
                                     [explanation |-> evaluated[j].mutation,
                                      key |-> entries[j].value]]]

\* a call that an exception left
Raises(kind) ==
    [call |-> kind, exc |-> "AttributeError", total |-> 0, killed |-> 0,
     execution_error |-> 0, mutations |-> <<>>]

\* runner.result.score or runner.result.to_dict() on a RunnerSuccess whose
\* mutant_results is a generator that has not ended: _evaluate_mutants starts
\* its loop over self.mutant_results, or goes on with it after a call that
\* an exception of the loop body left
ScoreCalled ==
    /\ rpc = "returned"
    /\ result.kind = "success"
    /\ epc \in {"none", "returned", "raised"}
    /\ Len(calls) < MaxCalls
    /\ mutant_results # None
    /\ gpc # "raised"
    /\ \E kind \in {"score", "to_dict"} :
           call' = [kind |-> kind, base |-> Len(evaluated_mutant_results)]
    /\ epc' = "iterating"
    /\ n_killed' = 0
    /\ n_execution_error' = 0
    /\ UNCHANGED <<evaluated_mutant_results, score, mutant_results, counters, calls>>
    /\ UNCHANGED <<file, now, programs, killed, tempfiles, rpc, result, unmodified, timed_out>>
    /\ UNCHANGED schedulerVars
    /\ UNCHANGED notRunnerVars

\* score or to_dict() when the loop has nothing to run: mutant_results is
\* None and _evaluate_mutants returns at once, or it is the generator an
\* exception has ended and the for loop has no turn (i stays -1, the counters
\* are stored as 0 and mutant_results becomes None)
CalledAfterEnd ==
    /\ rpc = "returned"
    /\ result.kind = "success"
    /\ epc \in {"returned", "raised"}
    /\ Len(calls) < MaxCalls
    /\ mutant_results = None \/ gpc = "raised"
    /\ counters' = IF mutant_results = None THEN counters
                   ELSE [total |-> 0, killed |-> 0, execution_error |-> 0]
    /\ mutant_results' = None
    /\ \E kind \in {"score", "to_dict"} :
           /\ calls' = Append(calls, Outcome(kind, counters', evaluated_mutant_results))
           /\ epc' = IF Outcome(kind, counters', evaluated_mutant_results).exc = "none"
                     THEN "returned" ELSE "raised"
           /\ score' = IF kind = "score"
                       THEN MutationScore(counters'.total, counters'.killed,
                                          counters'.execution_error)
                       ELSE score
    /\ UNCHANGED <<evaluated_mutant_results, n_killed, n_execution_error, call>>
    /\ UNCHANGED <<file, now, programs, killed, tempfiles, rpc, result, unmodified, timed_out>>
    /\ UNCHANGED schedulerVars
    /\ UNCHANGED notRunnerVars

\* one turn of `for i, result in enumerate(self.mutant_results)` on the
\* result the generator has just yielded
EvaluateMutant ==
    /\ epc = "iterating"
    /\ Len(evaluated_mutant_results) < Len(outputs)
    /\ LET r == outputs[Len(evaluated_mutant_results) + 1]
           c == evaluate_mutant(r)
       IN  /\ evaluated_mutant_results' = Append(evaluated_mutant_results, r)
           /\ epc' = IF c.exc = "none" THEN "iterating" ELSE "raised"
           /\ calls' = IF c.exc = "none" THEN calls ELSE Append(calls, Raises(call.kind))
           /\ call' = IF c.exc = "none" THEN call ELSE [kind |-> "none"]
           /\ n_execution_error' =
                  IF c = Value("execution_error") THEN n_execution_error + 1
                  ELSE n_execution_error
           /\ n_killed' = IF c = Value("killed") THEN n_killed + 1 ELSE n_killed
    /\ UNCHANGED <<score, mutant_results, counters>>
    /\ UNCHANGED <<file, now, programs, killed, tempfiles, rpc, result, unmodified, timed_out>>
    /\ UNCHANGED schedulerVars
    /\ UNCHANGED notRunnerVars

\* the generator has ended: on StopIteration the loop is over, the counters
\* are stored, mutant_results becomes None and score returns the
\* MutationScore (to_dict builds its dictionary); an exception that left
\* the generator leaves _evaluate_mutants and the call too
EvaluateEnd ==
    /\ epc = "iterating"
    /\ Len(evaluated_mutant_results) = Len(outputs)
    /\ gpc \in {"done", "raised"}
    /\ IF gpc = "done"
       THEN /\ counters' = [total |-> Len(evaluated_mutant_results) - call.base,
                            killed |-> n_killed, execution_error |-> n_execution_error]
            /\ mutant_results' = None
            /\ calls' = Append(calls, Outcome(call.kind, counters', evaluated_mutant_results))
            /\ epc' = IF Outcome(call.kind, counters', evaluated_mutant_results).exc = "none"
                      THEN "returned" ELSE "raised"
            /\ score' = IF call.kind = "score"
                        THEN MutationScore(counters'.total, n_killed, n_execution_error)
                        ELSE score
       ELSE /\ epc' = "raised"
            /\ calls' = Append(calls, Raises(call.kind))
            /\ UNCHANGED <<score, mutant_results, counters>>
    /\ call' = [kind |-> "none"]
    /\ UNCHANGED <<evaluated_mutant_results, n_killed, n_execution_error>>
    /\ UNCHANGED <<file, now, programs, killed, tempfiles, rpc, result, unmodified, timed_out>>
    /\ UNCHANGED schedulerVars
    /\ UNCHANGED notRunnerVars

NextRunner ==
    \/ RunFileNotFound
    \/ RunUnmodifiedSpawn
    \/ RunUnmodifiedSleep
    \/ RunUnmodifiedRaises
    \/ RunUnmodifiedFinished
    \/ RunMutantsLoopTop
    \/ RunMutantsDrainTop
    \/ RunMutantsPoll
    \/ RunMutantsSleep
    \/ ScoreCalled
    \/ CalledAfterEnd
    \/ EvaluateMutant
    \/ EvaluateEnd

SpecRunner == InitRunner /\ [][NextRunner]_vars

(***************************************************************************)
(* Properties of the Runner.                                               *)
(***************************************************************************)
\* the ids of the mutant programs (0 is the unmodified program)
MutantPrograms == DOMAIN programs \ {0}

\* C4: during run_mutants the number of child processes spawned and not yet
\* drained is at most MAX_PROCESS_COUNT.
C4_ProcessCap == Len(running_programs) <= MAX_PROCESS_COUNT

\* C5: once the generator has ended, by returning or by an exception, it has
\* emitted exactly one MutantOutput for every mutant of the stream, carrying
\* that mutant's mutation; so no mutant's failure, crash or timeout cuts the
\* run short.
C5_OneOutputPerMutant ==
    gpc \in {"done", "raised"} =>
        /\ \A i \in DOMAIN mutant_stream :
               Cardinality({j \in DOMAIN outputs :
                               outputs[j].mutation = mutant_stream[i].mutation}) = 1
        /\ Len(outputs) = Len(mutant_stream)

\* C6: a mutant whose program the scheduler found past the timeout has its
\* child killed and its temp file deleted, is out of running_programs, and has
\* a MutantOutput whose stderr holds a reason; the generator goes on.
C6_TimeoutHandled ==
    \A id \in timed_out \ {0} :
        /\ id \in killed
        /\ id \notin tempfiles
        /\ \A k \in DOMAIN running_programs : running_programs[k] # id
        /\ \E j \in DOMAIN outputs :
               outputs[j].mutation = programs[id].mut /\ outputs[j].stderr # ""
        /\ gpc # "raised"

\* C7: the temp file of the unmodified run is deleted when Runner.run has
\* returned, and the temp files of the mutants are deleted when the generator
\* has ended, on every path.
C7_TempFilesDeleted ==
    /\ rpc = "returned" => 0 \notin tempfiles
    /\ gpc \in {"done", "raised"} => tempfiles \cap MutantPrograms = {}

\* C8: after an abort (Runner.run ends with a failure, or an exception leaves
\* the generator) no child process is running.
C8_NoChildAfterAbort ==
    (\/ rpc = "returned" /\ result.kind = "failure"
     \/ gpc = "raised") => \A id \in DOMAIN programs : ~Alive(id)

\* C9: for a file without the DrRacket prefix Runner.run ends with the failure
\* NOT_DRRACKETY, for one with the prefix that the reader rejects with
\* READER_ERROR, and in both cases no interpreter process was started.
C9_ParseBeforeRun ==
    (file.exists /\ rpc = "returned") =>
        /\ ~file.drracket =>
               result = RunnerFailure("NOT_DRRACKETY") /\ DOMAIN programs = {}
        /\ (file.drracket /\ ~file.reader_ok) =>
               result = RunnerFailure("READER_ERROR") /\ DOMAIN programs = {}

\* C10: when Runner.run has returned after reading what the unmodified program
\* ended with: a non-zero returncode or any stderr gives the failure
\* NON_ZERO_UNMODIFIED_RETURNCODE; otherwise a report with failed > 0 gives
\* UNMODIFIED_TEST_FAILURE; in both cases there is no generator, no mutant
\* program was spawned, and the score of the result is the placeholder.
C10_UnmodifiedFailure ==
    (rpc = "returned" /\ unmodified.kind = "read") =>
        LET nonzero == unmodified.returncode # 0 \/ unmodified.stderr # ""
            failed  == ProgramOutput(unmodified.stdout).failed > 0
        IN  /\ nonzero => result = RunnerFailure("NON_ZERO_UNMODIFIED_RETURNCODE")
            /\ (~nonzero /\ failed) => result = RunnerFailure("UNMODIFIED_TEST_FAILURE")
            /\ (nonzero \/ failed) =>
                   /\ gpc = "none"
                   /\ MutantPrograms = {}
                   /\ result.score = RunnerResult_score
                   /\ ~result.execution_succeeded

\* C10 witness: the unmodified program ended with a non-zero returncode and a
\* report of a failed test, and the run ended.
C10_Witness ==
    /\ rpc = "returned"
    /\ unmodified.kind = "read"
    /\ unmodified.returncode # 0
    /\ ProgramOutput(unmodified.stdout).failed > 0
    /\ result.kind = "failure"

(***************************************************************************)
(* Properties of RunnerSuccess.                                            *)
(***************************************************************************)
\* the class of a mutant result: killed when the report has failed > 0,
\* execution error when stderr is not empty or returncode is not 0, survived
\* otherwise
MutantClass(r) ==
    IF r.failed > 0 THEN "killed"
    ELSE IF r.stderr # "" \/ r.returncode # 0 THEN "execution_error"
    ELSE "survived"

\* C11: every mutant result _evaluate_mutants has dealt with was put in its
\* class (killed: failed > 0; execution error: stderr or returncode # 0;
\* survived otherwise), and to_dict's entry for it is of the same class.
C11_Classification ==
    \A j \in DOMAIN evaluated_mutant_results :
        /\ evaluate_mutant(evaluated_mutant_results[j]) =
               Value(MutantClass(evaluated_mutant_results[j]))
        /\ to_dict_entry(evaluated_mutant_results[j]) =
               Value(MutantClass(evaluated_mutant_results[j]))

\* C12: when score is asked of a RunnerSuccess and the call has ended, it
\* returned a MutationScore whose total is the number of mutant results
\* consumed, with killed + execution_error <= total, and (0, 0, 0) for no
\* mutants.
C12_ScoreTotal ==
    epc \in {"returned", "raised"} =>
        /\ score.kind = "MutationScore"
        /\ score.total = Len(outputs)
        /\ score.killed >= 0 /\ score.execution_error >= 0
        /\ score.total - score.killed - score.execution_error >= 0
        /\ score.killed = Cardinality({j \in DOMAIN outputs :
                                          MutantClass(outputs[j]) = "killed"})

(***************************************************************************)
(*                 Part III: ProgramOutput on its own                      *)
(*                                                                         *)
(* Specification SpecOutput: a stdout text is given and ProgramOutput is   *)
(* constructed from it.                                                    *)
(***************************************************************************)
\* the most phrases in a stdout text
MaxPhrases == 3

\* The phrases of a stdout text: the report phrases, with the numbers the
\* interpreter can print for up to three tests, and text that is none of them.
Phrases ==
    {[form |-> "the_test_passed"], [form |-> "both_tests_passed"],
     [form |-> "tests_passed", n |-> 3], [form |-> "tests_passed", n |-> 4],
     [form |-> "ran", n |-> 2], [form |-> "ran", n |-> 3],
     [form |-> "zero_tests_passed"],
     [form |-> "tests_failed", a |-> 1, b |-> 3],
     [form |-> "other"]}

Stdouts == UNION {[1..k -> Phrases] : k \in 0..MaxPhrases}

InitOutput ==
    /\ po_stdout \in Stdouts
    /\ po = [kind |-> "none"]
    /\ ApplierIdle
    /\ RunnerIdle
    /\ MutatorIdle
    /\ ReaderIdle

\* output.ProgramOutput(stdout)
ConstructProgramOutput ==
    /\ po = [kind |-> "none"]
    /\ po' = ProgramOutput(po_stdout)
    /\ UNCHANGED po_stdout
    /\ UNCHANGED notOutputVars

NextOutput == ConstructProgramOutput

SpecOutput == InitOutput /\ [][NextOutput]_vars

\* C13: the rules of the report parser apply in order and the first that
\* matches decides (passed, failed): 'The test passed!' (1, 0); 'Both tests
\* passed!' (2, 0); 'N tests passed!' (N, 0); 'Ran N test ... 0 tests
\* passed.' (0, N); 'A of the B tests failed.' (B - A, A); none (0, 0).
C13_ParserRules ==
    po # [kind |-> "none"] =>
        LET has(f) == \E i \in DOMAIN po_stdout : po_stdout[i].form = f
            ph(f)  == po_stdout[First(Forms(po_stdout, f))]
            rule1  == has("the_test_passed")
            rule2  == has("both_tests_passed")
            rule3  == has("tests_passed")
            rule4  == \E i, j \in DOMAIN po_stdout :
                         /\ i < j
                         /\ po_stdout[i].form = "ran"
                         /\ po_stdout[j].form = "zero_tests_passed"
            rule5  == has("tests_failed")
            ran    == CHOOSE i \in DOMAIN po_stdout :
                         /\ po_stdout[i].form = "ran"
                         /\ \E j \in DOMAIN po_stdout :
                                i < j /\ po_stdout[j].form = "zero_tests_passed"
                         /\ \A k \in 1..(i - 1) : po_stdout[k].form # "ran"
        IN  /\ rule1 => po = [passed |-> 1, failed |-> 0]
            /\ (~rule1 /\ rule2) => po = [passed |-> 2, failed |-> 0]
            /\ (~rule1 /\ ~rule2 /\ rule3) =>
                   po = [passed |-> ph("tests_passed").n, failed |-> 0]
            /\ (~rule1 /\ ~rule2 /\ ~rule3 /\ rule4) =>
                   po = [passed |-> 0, failed |-> po_stdout[ran].n]
            /\ (~rule1 /\ ~rule2 /\ ~rule3 /\ ~rule4 /\ rule5) =>
                   po = [passed |-> ph("tests_failed").b - ph("tests_failed").a,
                         failed |-> ph("tests_failed").a]
            /\ (~rule1 /\ ~rule2 /\ ~rule3 /\ ~rule4 /\ ~rule5) =>
                   po = [passed |-> 0, failed |-> 0]
            /\ (rule1 \/ rule2 \/ rule3) => po.failed = 0

\* C13 witness: a text that a failure rule and 'The test passed!' both match
\* has been parsed.
C13_Witness ==
    /\ po # [kind |-> "none"]
    /\ \E i \in DOMAIN po_stdout : po_stdout[i].form = "tests_failed"
    /\ \E i \in DOMAIN po_stdout : po_stdout[i].form = "the_test_passed"
    /\ po.passed = 1

(***************************************************************************)
(*              Part IV: the mutation generators and the Mutator           *)
(*   (mutation/generator/procedure_replacement.py,                         *)
(*    mutation/generator/procedure_application_replacement.py,             *)
(*    mutation/mutator.py)                                                 *)
(*                                                                         *)
(* A visit is a Python generator of Mutations; it is run here to its end,  *)
(* threading st = [h |-> the object graph, out |-> the Mutations yielded]. *)
(***************************************************************************)
\* the id of the next node object made
NewId(h) == (CHOOSE n \in DOMAIN h : \A m \in DOMAIN h : m <= n) + 1

\* ProcedureReplacement(replacements): replacements maps a procedure name to
\* the list of the names to put in its place
ProcedureReplacement(replacements) ==
    [class |-> "ProcedureReplacement", replacements |-> replacements]

\* ProcedureApplicationReplacement(replacements), after __init__: replacements
\* maps a procedure name to the list of the parsed expression nodes
ProcedureApplicationReplacement(replacements) ==
    [class |-> "ProcedureApplicationReplacement", replacements |-> replacements]

\* Mutator(generators, name_specific_mutators)
Mutator(generators, name_specific_mutators) ==
    [kind |-> "Mutator", generators |-> generators,
     name_specific_mutators |-> name_specific_mutators]

RECURSIVE ProcedureReplacement_loop(_, _, _, _, _)
\* for replacement in self.replacements[procedure_name]: new_node = ...; yield
ProcedureReplacement_loop(self, st, n, procedure_name, rs) ==
    IF rs = <<>> THEN st
    ELSE LET name_id  == NewId(st.h)
             new_node == name_id + 1
             h1 == (name_id :> RacketNameNode(Head(rs))) @@
                   (new_node :> [RacketProcedureApplicationNode(
                                     <<name_id>> \o Tail(st.h[n].expressions))
                                 EXCEPT !.token = None]) @@ st.h
             explanation == [text |-> "Replace procedure", procedure_name |-> procedure_name,
                             with |-> Head(rs)]
         IN  ProcedureReplacement_loop(self,
                 [h |-> h1, out |-> Append(st.out, Mutation(n, new_node, explanation))],
                 n, procedure_name, Tail(rs))

ProcedureReplacement_visit_procedure_application_node(self, st, n) ==
    IF Len(st.h[n].expressions) = 0 THEN st
    ELSE LET procedure == st.h[st.h[n].expressions[1]]
         IN  IF procedure.token.type # "SYMBOL" THEN st
             ELSE IF procedure.token.source \notin DOMAIN self.replacements THEN st
             ELSE ProcedureReplacement_loop(self, st, n, procedure.token.source,
                      self.replacements[procedure.token.source])

RECURSIVE ProcedureApplicationReplacement_loop(_, _, _, _, _)
\* for new_node in self.replacements[procedure_name]: yield
ProcedureApplicationReplacement_loop(self, st, n, procedure_name, rs) ==
    IF rs = <<>> THEN st
    ELSE LET explanation == [text |-> "Replace procedure application of",
                             procedure_name |-> procedure_name,
                             with |-> Stringifier_visit(st.h, Head(rs))]
         IN  ProcedureApplicationReplacement_loop(self,
                 [st EXCEPT !.out = Append(@, Mutation(n, Head(rs), explanation))],
                 n, procedure_name, Tail(rs))

ProcedureApplicationReplacement_visit_procedure_application_node(self, st, n) ==
    IF Len(st.h[n].expressions) = 0 THEN st
    ELSE LET procedure == st.h[st.h[n].expressions[1]]
         IN  IF procedure.token.type # "SYMBOL" THEN st
             ELSE IF procedure.token.source \notin DOMAIN self.replacements THEN st
             ELSE ProcedureApplicationReplacement_loop(self, st, n, procedure.token.source,
                      self.replacements[procedure.token.source])

\* generator.visit(node): MutationGenerator yields nothing for a node that is
\* no procedure application
MutationGenerator_visit(self, st, n) ==
    IF st.h[n].kind # "procedure_application" THEN st
    ELSE IF self.class = "ProcedureReplacement"
    THEN ProcedureReplacement_visit_procedure_application_node(self, st, n)
    ELSE ProcedureApplicationReplacement_visit_procedure_application_node(self, st, n)

RECURSIVE Generators_visit(_, _, _)
\* for generator in self.generators: for mut in generator.visit(node): yield mut
Generators_visit(generators, st, n) ==
    IF generators = <<>> THEN st
    ELSE Generators_visit(Tail(generators), MutationGenerator_visit(Head(generators), st, n), n)

RECURSIVE Mutator_visit(_, _, _)

RECURSIVE Mutator_visit_children(_, _, _)
\* for child_node in children: for mut in self.visit(child_node): yield mut
Mutator_visit_children(self, st, children) ==
    IF children = <<>> THEN st
    ELSE Mutator_visit_children(self, Mutator_visit(self, st, Head(children)), Tail(children))

\* visit_test_case_node going into the test case's expressions
Mutator_visit_test_case_node_descending(self, st, n) ==
    Mutator_visit_children(self, st, st.h[n].expressions)

\* Mutator.visit_test_case_node: yields nothing
Mutator_visit_test_case_node(self, st, n) == st

\* visit_name_definition_node that never hands over to a named mutator
Mutator_visit_name_definition_node_unscoped(self, st, n) ==
    Mutator_visit_children(self, st, <<st.h[n].name, st.h[n].expression>>)

\* Mutator.visit_name_definition_node
Mutator_visit_name_definition_node(self, st, n) ==
    LET name == st.h[st.h[n].name].token.source
    IN  IF name \in DOMAIN self.name_specific_mutators
        THEN Mutator_visit(self.name_specific_mutators[name],
                           Mutator_visit(self, st, st.h[n].name), st.h[n].expression)
        ELSE Mutator_visit_children(self, st, <<st.h[n].name, st.h[n].expression>>)

\* node.accept_visitor(self): the visit method of the node's class
Mutator_accept(self, st, n) ==
    LET node == st.h[n]
    IN  CASE node.kind = "program" ->
                 Mutator_visit_children(self, st, <<node.reader_directive>> \o node.statements)
          [] node.kind = "name_definition" -> Mutator_visit_name_definition_node(self, st, n)
          [] node.kind = "structure_definition" ->
                 Mutator_visit_children(self, st, <<node.name>> \o node.fields)
          [] node.kind = "cond" -> Mutator_visit_children(self, st, Flatten(node.branches))
          [] node.kind = "lambda" ->
                 Mutator_visit_children(self, st, node.variables \o <<node.expression>>)
          [] node.kind = "let" ->
                 Mutator_visit_children(self, st,
                     Flatten(node.local_definitions) \o <<node.expression>>)
          [] node.kind = "local" ->
                 Mutator_visit_children(self, st, node.definitions \o <<node.expression>>)
          [] node.kind = "procedure_application" ->
                 Mutator_visit_children(self, st, node.expressions)
          [] node.kind = "test_case" -> Mutator_visit_test_case_node(self, st, n)
          [] OTHER -> st

\* Mutator.visit
Mutator_visit(self, st, n) ==
    Mutator_accept(self, Generators_visit(self.generators, st, n), n)

\* list(mutator.generate_mutations(program))
generate_mutations(self, h) == Mutator_visit(self, [h |-> h, out |-> <<>>], Root)

(***************************************************************************)
(* Specification SpecMutator: a Mutator is constructed and the mutations   *)
(* of a parsed program are generated and collected in a list.              *)
(***************************************************************************)
\* #lang racket
\* (+ 1 (+ 2 3))
\* (define f (lambda () (+ 1)))
\* (define g (lambda () (and (+ 1))))
ProgramArithmetic ==
    1 :> RacketProgramNode(2, <<3, 10, 16>>) @@
    2 :> RacketReaderDirectiveNode(S_lang) @@
    3 :> RacketProcedureApplicationNode(<<4, 5, 6>>) @@
    4 :> RacketNameNode(<<"+">>) @@
    5 :> RacketLiteralNode(<<"1">>) @@
    6 :> RacketProcedureApplicationNode(<<7, 8, 9>>) @@
    7 :> RacketNameNode(<<"+">>) @@
    8 :> RacketLiteralNode(<<"2">>) @@
    9 :> RacketLiteralNode(<<"3">>) @@
    10 :> RacketNameDefinitionNode(11, 12) @@
    11 :> RacketNameNode(<<"f">>) @@
    12 :> RacketLambdaNode(<<>>, 13) @@
    13 :> RacketProcedureApplicationNode(<<14, 15>>) @@
    14 :> RacketNameNode(<<"+">>) @@
    15 :> RacketLiteralNode(<<"1">>) @@
    16 :> RacketNameDefinitionNode(17, 18) @@
    17 :> RacketNameNode(<<"g">>) @@
    18 :> RacketLambdaNode(<<>>, 19) @@
    19 :> RacketProcedureApplicationNode(<<20, 21>>) @@
    20 :> RacketNameNode(S_and) @@
    21 :> RacketProcedureApplicationNode(<<22, 23>>) @@
    22 :> RacketNameNode(<<"+">>) @@
    23 :> RacketLiteralNode(<<"1">>) @@
    ReplacementNodes

\* #lang racket
\* ()
\* (1 +)
\* ((+) and)
\* (check-expect (+ 1) 2)
\* (cond ((and #t) (+ 1)))
ProgramHeads ==
    1 :> RacketProgramNode(2, <<3, 4, 7, 11, 16>>) @@
    2 :> RacketReaderDirectiveNode(S_lang) @@
    3 :> RacketProcedureApplicationNode(<<>>) @@
    4 :> RacketProcedureApplicationNode(<<5, 6>>) @@
    5 :> RacketLiteralNode(<<"1">>) @@
    6 :> RacketNameNode(<<"+">>) @@
    7 :> RacketProcedureApplicationNode(<<8, 10>>) @@
    8 :> RacketProcedureApplicationNode(<<9>>) @@
    9 :> RacketNameNode(<<"+">>) @@
    10 :> RacketNameNode(S_and) @@
    11 :> RacketTestCaseNode(S_check, <<12, 15>>) @@
    12 :> RacketProcedureApplicationNode(<<13, 14>>) @@
    13 :> RacketNameNode(<<"+">>) @@
    14 :> RacketLiteralNode(<<"1">>) @@
    15 :> RacketLiteralNode(<<"2">>) @@
    16 :> RacketCondNode(<<<<17, 20>>>>) @@
    17 :> RacketProcedureApplicationNode(<<18, 19>>) @@
    18 :> RacketNameNode(S_and) @@
    19 :> RacketLiteralNode(S_true) @@
    20 :> RacketProcedureApplicationNode(<<21, 22>>) @@
    21 :> RacketNameNode(<<"+">>) @@
    22 :> RacketLiteralNode(<<"1">>) @@
    ReplacementNodes

\* #lang racket
\* (+ 1)
\* (define f (lambda () (+ 1)))
ProgramNameSpecific ==
    1 :> RacketProgramNode(2, <<3, 6>>) @@
    2 :> RacketReaderDirectiveNode(S_lang) @@
    3 :> RacketProcedureApplicationNode(<<4, 5>>) @@
    4 :> RacketNameNode(<<"+">>) @@
    5 :> RacketLiteralNode(<<"1">>) @@
    6 :> RacketNameDefinitionNode(7, 8) @@
    7 :> RacketNameNode(<<"f">>) @@
    8 :> RacketLambdaNode(<<>>, 9) @@
    9 :> RacketProcedureApplicationNode(<<10, 11>>) @@
    10 :> RacketNameNode(<<"+">>) @@
    11 :> RacketLiteralNode(<<"1">>) @@
    ReplacementNodes

\* #lang racket
\* (require +)
\* (check-expect (+ 1 (and #t)) 2)
\* (+ 1)
ProgramTested ==
    1 :> RacketProgramNode(2, <<3, 5, 13>>) @@
    2 :> RacketReaderDirectiveNode(S_lang) @@
    3 :> RacketLibraryRequireNode(4) @@
    4 :> RacketNameNode(<<"+">>) @@
    5 :> RacketTestCaseNode(S_check, <<6, 12>>) @@
    6 :> RacketProcedureApplicationNode(<<7, 8, 9>>) @@
    7 :> RacketNameNode(<<"+">>) @@
    8 :> RacketLiteralNode(<<"1">>) @@
    9 :> RacketProcedureApplicationNode(<<10, 11>>) @@
    10 :> RacketNameNode(S_and) @@
    11 :> RacketLiteralNode(S_true) @@
    12 :> RacketLiteralNode(<<"2">>) @@
    13 :> RacketProcedureApplicationNode(<<14, 15>>) @@
    14 :> RacketNameNode(<<"+">>) @@
    15 :> RacketLiteralNode(<<"1">>) @@
    ReplacementNodes

MutatorPrograms ==
    {ProgramArithmetic, ProgramHeads, ProgramNameSpecific, ProgramApplications, ProgramTested}

\* the most replacements a mapping lists for one procedure name
MaxReplacements == 2

\* the procedure names a mapping can have as keys
ProcedureNames == {<<"+">>, S_and}

\* the mappings from some procedure names to lists of values
Mappings(values) ==
    LET Lists == UNION {[1..k -> values] : k \in 0..MaxReplacements}
    IN  UNION {[K -> Lists] : K \in SUBSET ProcedureNames}

ProcedureReplacements == {ProcedureReplacement(m) : m \in Mappings({<<"-">>, <<"*">>})}

ProcedureApplicationReplacements ==
    {ProcedureApplicationReplacement(m) : m \in Mappings(Replacements)}

\* name_specific_mutators: none, or a mutator for the body of f
NameSpecificMutators ==
    {<<>>,
     <<"f">> :> Mutator(<<ProcedureReplacement(<<"+">> :> << <<"-">> >>)>>, <<>>),
     <<"f">> :> Mutator(<<ProcedureReplacement(<<"+">> :> << <<"/">> >>)>>, <<>>)}

\* a Mutator with both generators
BothGenerators ==
    <<ProcedureReplacement(<<"+">> :> << <<"-">> >>),
      ProcedureApplicationReplacement(<<"+">> :> <<91>>)>>

InitMutator ==
    /\ ast0 \in MutatorPrograms
    /\ ast = ast0
    /\ \E ns \in NameSpecificMutators :
           \/ \E g \in ProcedureReplacements : mutator = Mutator(<<g>>, ns)
           \/ \E g \in ProcedureApplicationReplacements : mutator = Mutator(<<g>>, ns)
           \/ mutator = Mutator(BothGenerators, ns)
    /\ mpc = "created"
    /\ mutations = <<>>
    /\ mutants = <<>>
    /\ apc = "none"
    /\ RunnerIdle
    /\ OutputIdle
    /\ ReaderIdle

\* mutations = list(mutator.generate_mutations(program))
GenerateMutations ==
    /\ mpc = "created"
    /\ mutations' = generate_mutations(mutator, ast0).out
    /\ ast' = generate_mutations(mutator, ast0).h
    /\ mpc' = "generated"
    /\ UNCHANGED <<ast0, mutator>>
    /\ UNCHANGED notMutatorVars

NextMutator == GenerateMutations

SpecMutator == InitMutator /\ [][NextMutator]_vars

(***************************************************************************)
(* Properties of the generators and the Mutator.                           *)
(***************************************************************************)
\* the nodes the Mutator's traversal goes to from node n: the node's slots,
\* and none below a test case
TraversalChildren(h, n) == IF h[n].kind = "test_case" THEN {} ELSE Range(Children(h, n))

RECURSIVE Reached(_, _)
\* node n and the nodes the traversal reaches below it
Reached(h, n) == {n} \cup UNION {Reached(h, c) : c \in TraversalChildren(h, n)}

\* the procedure applications among nodes whose head is a symbol Name
SymbolApplications(h, nodes) ==
    {n \in nodes : /\ h[n].kind = "procedure_application"
                   /\ Len(h[n].expressions) > 0
                   /\ h[h[n].expressions[1]].kind = "name"
                   /\ h[h[n].expressions[1]].token.type = "SYMBOL"}

\* the name at the head of application n
HeadName(h, n) == h[h[n].expressions[1]].token.source

\* one element for every mutation due: generator k of mut, application n
\* among nodes, replacement i of the application's procedure name
Due(mut, h, nodes) ==
    {<<k, n, i>> \in (DOMAIN mut.generators) \X SymbolApplications(h, nodes)
                     \X (1..(MaxReplacements + 1)) :
        /\ HeadName(h, <<k, n, i>>[2]) \in DOMAIN mut.generators[<<k, n, i>>[1]].replacements
        /\ <<k, n, i>>[3] <=
               Len(mut.generators[<<k, n, i>>[1]].replacements[HeadName(h, <<k, n, i>>[2])])}

\* the nodes in the expression of a reached definition of a name that has a
\* name-specific mutator
Scoped(mut, h) ==
    UNION {Reached(h, h[d].expression) :
              d \in {x \in Reached(h, Root) :
                        /\ h[x].kind = "name_definition"
                        /\ h[h[x].name].token.source \in DOMAIN mut.name_specific_mutators}}

\* mutation m is one a generator of mut makes for the name at the head of
\* m.original
FromGeneratorsOf(mut, h, m) ==
    \E k \in DOMAIN mut.generators :
        LET g == mut.generators[k]
        IN  /\ m.explanation.procedure_name \in DOMAIN g.replacements
            /\ \E i \in DOMAIN g.replacements[m.explanation.procedure_name] :
                   LET r == g.replacements[m.explanation.procedure_name][i]
                   IN  IF g.class = "ProcedureReplacement"
                       THEN /\ m.explanation.text = "Replace procedure"
                            /\ m.explanation.with = r
                       ELSE /\ m.explanation.text = "Replace procedure application of"
                            /\ m.replacement = r

\* C14: a mutation of ProcedureReplacement has as original the Name node at
\* the head of the application, and as replacement a new Name node that
\* carries the replacement symbol.
C14_OriginalIsHeadName ==
    mpc = "generated" =>
        \A j \in DOMAIN mutations :
            mutations[j].explanation.text = "Replace procedure" =>
                /\ ast[mutations[j].original].kind = "name"
                /\ ast[mutations[j].original].token.source =
                       mutations[j].explanation.procedure_name
                /\ ast[mutations[j].replacement].kind = "name"
                /\ ast[mutations[j].replacement].token.source = mutations[j].explanation.with

\* C15: for a Mutator without name-specific mutators, the number of mutations
\* is the sum, over the procedure applications the traversal reaches whose
\* head is a symbol Name in the mapping, of the number of replacements listed
\* for the name; other applications give none.
C15_MutationCount ==
    (mpc = "generated" /\ DOMAIN mutator.name_specific_mutators = {}) =>
        /\ Len(mutations) = Cardinality(Due(mutator, ast0, Reached(ast0, Root)))
        /\ \A j \in DOMAIN mutations :
               mutations[j].original \in SymbolApplications(ast0, Reached(ast0, Root))

\* C15 witness: mutations were generated for nested applications, on a
\* program that also has applications that give none.
C15_Witness ==
    /\ mpc = "generated"
    /\ DOMAIN mutator.name_specific_mutators = {}
    /\ ast0 = ProgramHeads
    /\ Len(mutations) >= 4

\* the indices of the mutations whose original is among nodes
MutationsIn(nodes) == {j \in DOMAIN mutations : mutations[j].original \in nodes}

\* C16: the mutations whose original is in the expression of a definition
\* whose name has a name-specific mutator are the ones that mutator's
\* generators make there, none is made there by the enclosing mutator's
\* generators; the other mutations are the ones the enclosing mutator's
\* generators make outside such definitions.  With the general rule + to *,
\* the rule + to - for f, on (+ 1) and (define f (lambda () (+ 1))), there
\* are exactly two mutations: the outer + to *, the inner + to -.
C16_NameSpecificScope ==
    mpc = "generated" =>
        LET scoped   == Scoped(mutator, ast0)
            unscoped == Reached(ast0, Root) \ scoped
        IN  /\ \A j \in MutationsIn(scoped) :
                   FromGeneratorsOf(mutator.name_specific_mutators[<<"f">>], ast, mutations[j])
            /\ scoped # {} =>
                   Cardinality(MutationsIn(scoped)) =
                       Cardinality(Due(mutator.name_specific_mutators[<<"f">>], ast0, scoped))
            /\ \A j \in MutationsIn(unscoped) : FromGeneratorsOf(mutator, ast, mutations[j])
            /\ Cardinality(MutationsIn(unscoped)) = Cardinality(Due(mutator, ast0, unscoped))
            /\ MutationsIn(scoped) \cup MutationsIn(unscoped) = DOMAIN mutations
            /\ (/\ ast0 = ProgramNameSpecific
                /\ DOMAIN mutator.name_specific_mutators # {}
                /\ mutator.name_specific_mutators[<<"f">>].generators[1].replacements[<<"+">>]
                       = << <<"-">> >>
                /\ Len(mutator.generators) = 1
                /\ mutator.generators[1].class = "ProcedureReplacement"
                /\ DOMAIN mutator.generators[1].replacements = {<<"+">>}
                /\ mutator.generators[1].replacements[<<"+">>] = << <<"*">> >>) =>
                   /\ Len(mutations) = 2
                   /\ mutations[1].original = 3 /\ mutations[1].explanation.with = <<"*">>
                   /\ mutations[2].original = 9 /\ mutations[2].explanation.with = <<"-">>

\* C16 witness: with the rule + to - for f and the general rule + to *, the
\* two mutations were generated, one outside and one inside the definition
\* of f.
C16_Witness ==
    /\ mpc = "generated"
    /\ DOMAIN mutator.name_specific_mutators # {}
    /\ ast0 = ProgramNameSpecific
    /\ Len(mutations) = 2
    /\ mutations[1].original \notin Scoped(mutator, ast0)
    /\ mutations[1].explanation.with = <<"*">>
    /\ mutations[2].original \in Scoped(mutator, ast0)
    /\ mutations[2].explanation.with = <<"-">>

(***************************************************************************)
(* Part V.  The reader: Lexer (reader/lexer.py), Parser                    *)
(* (reader/parser.py) and Stringifier, run one after the other as          *)
(* reader_integration_test.py does.  Specification: SpecReader.            *)
(*                                                                         *)
(* A pattern of lexer.py is an operator that gives the length of the       *)
(* match of the pattern at the start of the text, 0 when there is no       *)
(* match: no pattern of the lexer matches the empty text.  RE_X is the     *)
(* pattern X.                                                              *)
(***************************************************************************)
\* a Python str literal, as the sequence of its characters
Chars(str) == [i \in 1..Len(str) |-> SubSeq(str, i, i)]

\* \s
WHITESPACE_CHARACTERS == {" ", "\t", "\n", "\r", "\f"}

\* the backquote character: a string of this language cannot hold it, so it
\* is the one character of the model that is written as a word
BACKQUOTE == "BACKQUOTE"

\* the one-character alternatives of DELIMITER
DELIMITER_CHARACTERS == {"(", ")", "[", "]", "{", "}", "'", BACKQUOTE, ","}

\* the characters [^...] of SYMBOL_CHARACTER leaves out, \s apart
NOT_SYMBOL_CHARACTERS ==
    {"(", ")", "[", "]", "{", "}", "\"", ",", "'", BACKQUOTE, ";", "|", "\\"}

DIGIT_8 == {"0", "1", "2", "3", "4", "5", "6", "7"}
DIGIT_10 == DIGIT_8 \cup {"8", "9"}
DIGIT_16 == DIGIT_10 \cup {"a", "b", "c", "d", "e", "f"}
SIGN == {"+", "-"}

\* [a-zA-Z]
LETTERS ==
    {"a", "b", "c", "d", "e", "f", "g", "h", "i", "j", "k", "l", "m", "n", "o", "p", "q",
     "r", "s", "t", "u", "v", "w", "x", "y", "z", "A", "B", "C", "D", "E", "F", "G", "H",
     "I", "J", "K", "L", "M", "N", "O", "P", "Q", "R", "S", "T", "U", "V", "W", "X", "Y",
     "Z"}

\* SYMBOL_CHARACTER
IsSymbolCharacter(c) == c \notin NOT_SYMBOL_CHARACTERS \cup WHITESPACE_CHARACTERS

\* LEADING_SYMBOL_CHARACTER
IsLeadingSymbolCharacter(c) == IsSymbolCharacter(c) /\ c # "#"

\* text[from:]
Drop(text, from) == SubSeq(text, from + 1, Len(text))

\* text.startswith(prefix)
StartsWith(text, prefix) ==
    Len(text) >= Len(prefix) /\ SubSeq(text, 1, Len(prefix)) = prefix

RECURSIVE Span(_, _, _)
\* the end of the longest run of characters of the set, from index i on:
\* the greedy [set]*
Span(text, i, set) ==
    IF i <= Len(text) /\ text[i] \in set THEN Span(text, i + 1, set) ELSE i - 1

RECURSIVE SpanLine(_, _)
\* the greedy .* : to the end of the line
SpanLine(text, i) ==
    IF i <= Len(text) /\ text[i] # "\n" THEN SpanLine(text, i + 1) ELSE i - 1

RECURSIVE SpanSymbolCharacters(_, _)
\* the greedy SYMBOL_CHARACTER*
SpanSymbolCharacters(text, i) ==
    IF i <= Len(text) /\ IsSymbolCharacter(text[i])
    THEN SpanSymbolCharacters(text, i + 1) ELSE i - 1

\* WHITESPACE = \s+
RE_WHITESPACE(text) == Span(text, 1, WHITESPACE_CHARACTERS)

\* LINE_COMMENT = ;.*
RE_LINE_COMMENT(text) == IF text # <<>> /\ text[1] = ";" THEN SpanLine(text, 2) ELSE 0

\* BOOLEAN = #(true|false)
RE_BOOLEAN(text) ==
    IF StartsWith(text, Chars("#true")) THEN 5
    ELSE IF StartsWith(text, Chars("#false")) THEN 6
    ELSE 0

\* ABBREVIATED_BOOLEAN = #[TtFf]
RE_ABBREVIATED_BOOLEAN(text) ==
    IF Len(text) >= 2 /\ text[1] = "#" /\ text[2] \in {"T", "t", "F", "f"} THEN 2 ELSE 0

\* the names of CHARACTER, in the order of the alternatives; null? is nul
\* with an optional l
CHARACTER_NAMES ==
    <<"null", "nul", "backspace", "tab", "newline", "linefeed", "vtab", "page", "return",
      "space", "rubout">>

\* CHARACTER = #\\(null?|backspace|...|DIGIT_8{3}|u DIGIT_16{1,4}|U DIGIT_16{1,8}
\*             |[a-zA-Z](?![a-zA-Z])|[0-7](?![0-7])|[^a-zA-Z0-7])
\* the first alternative that matches, in the order written
RE_CHARACTER(text) ==
    IF ~StartsWith(text, <<"#", "\\">>) \/ Len(text) < 3 THEN 0
    ELSE LET rest  == Drop(text, 2)
             named == {k \in DOMAIN CHARACTER_NAMES : StartsWith(rest, Chars(CHARACTER_NAMES[k]))}
             hex   == Span(rest, 2, DIGIT_16)
             next(set) == Len(rest) >= 2 /\ rest[2] \in set
         IN  IF named # {}
             THEN 2 + Len(CHARACTER_NAMES[CHOOSE k \in named : \A j \in named : k <= j])
             ELSE IF Span(rest, 1, DIGIT_8) >= 3 THEN 5
             ELSE IF rest[1] = "u" /\ next(DIGIT_16)
                  THEN 2 + (IF hex > 5 THEN 5 ELSE hex)
             ELSE IF rest[1] = "U" /\ next(DIGIT_16)
                  THEN 2 + (IF hex > 9 THEN 9 ELSE hex)
             ELSE IF rest[1] \in LETTERS THEN (IF next(LETTERS) THEN 0 ELSE 3)
             ELSE IF rest[1] \in DIGIT_8 THEN (IF next(DIGIT_8) THEN 0 ELSE 3)
             ELSE 3

RECURSIVE IsSignedDigitsPound(_)
\* SIGN? DIGIT_10+ #* : what INEXACT_REAL_10 (and EXACT_RATIONAL_10, without
\* the #) matches of a text of digits, signs and #
IsSignedDigitsPound(text) ==
    LET unsigned == IF text # <<>> /\ text[1] \in SIGN THEN Tail(text) ELSE text
        digits   == Span(unsigned, 1, DIGIT_10)
    IN  digits >= 1 /\ Span(unsigned, digits + 1, {"#"}) = Len(unsigned)

\* does GENERAL_NUMBER match the whole text?  Of the grammar of lines 16-107
\* this is the part written with decimal digits, signs, # and @:
\* SIGN? DIGIT_10+ #* and the polar form real@real.  A text with a letter, a
\* point or a slash in it is taken not to be a number, which is right when it
\* has no digit and no sign (every number has a digit, or a sign before inf
\* or nan), as all such texts read here.
IsNumber(text) ==
    \/ IsSignedDigitsPound(text)
    \/ \E k \in DOMAIN text :
           /\ text[k] = "@"
           /\ IsSignedDigitsPound(SubSeq(text, 1, k - 1))
           /\ IsSignedDigitsPound(Drop(text, k))

\* NUMBER = (GENERAL_NUMBER|LEADING_EXACTNESS_NUMBER)(?=$|delimiter|double quote|\s)
\* A number is made of symbol characters, and the lookahead wants a
\* character after it that is none: the match is the whole run of symbol
\* characters or nothing.
RE_NUMBER(text) ==
    LET run == SpanSymbolCharacters(text, 1)
    IN  IF /\ run >= 1
           /\ IsNumber(SubSeq(text, 1, run))
           /\ \/ run = Len(text)
              \/ text[run + 1] \in DELIMITER_CHARACTERS \cup WHITESPACE_CHARACTERS \cup {"\""}
        THEN run ELSE 0

RECURSIVE STRING_CHARACTERS(_, _)
\* STRING_CHARACTER* and the closing quote, from index i on: the index of
\* the closing quote, or 0.
\* A backslash must begin an escape: one of abtnvfre and the two quotes, an octal digit, a
\* newline, or x, u, U and a hexadecimal digit; the optional further digits
\* of an escape are string characters of their own as well.
STRING_CHARACTERS(text, i) ==
    IF i > Len(text) THEN 0
    ELSE IF text[i] = "\"" THEN i
    ELSE IF text[i] # "\\" THEN STRING_CHARACTERS(text, i + 1)
    ELSE IF i + 1 > Len(text) THEN 0
    ELSE IF text[i + 1] \in {"a", "b", "t", "n", "v", "f", "r", "e", "\"", "'", "\n"} \cup DIGIT_8
         THEN STRING_CHARACTERS(text, i + 2)
    ELSE IF text[i + 1] \in {"x", "u", "U"} /\ i + 2 <= Len(text) /\ text[i + 2] \in DIGIT_16
         THEN STRING_CHARACTERS(text, i + 3)
    ELSE 0

\* STRING = a double quote, STRING_CHARACTER*, a double quote
RE_STRING(text) == IF text # <<>> /\ text[1] = "\"" THEN STRING_CHARACTERS(text, 2) ELSE 0

\* READER_DIRECTIVE = #(lang|reader).*
RE_READER_DIRECTIVE(text) ==
    IF StartsWith(text, Chars("#lang")) THEN SpanLine(text, 6)
    ELSE IF StartsWith(text, Chars("#reader")) THEN SpanLine(text, 8)
    ELSE 0

\* ESCAPED_SYMBOL_CHARACTERS at index i: the index of its last character, or 0
ESCAPED_SYMBOL_CHARACTERS(text, i) ==
    IF i > Len(text) THEN 0
    ELSE IF text[i] = "\\"
         THEN IF /\ i + 1 <= Len(text)
                 /\ (IsSymbolCharacter(text[i + 1]) \/ text[i + 1] \in WHITESPACE_CHARACTERS)
              THEN i + 1 ELSE 0
    ELSE IF text[i] = "|"
         THEN LET end == Span(text, i + 1,
                              {c \in Range(text) : IsSymbolCharacter(c)}
                                  \cup WHITESPACE_CHARACTERS)
              IN  IF end + 1 <= Len(text) /\ text[end + 1] = "|" THEN end + 1 ELSE 0
    ELSE 0

RECURSIVE SYMBOL_rest(_, _)
\* (ESCAPED_SYMBOL_CHARACTERS|SYMBOL_CHARACTER)* from index i on
SYMBOL_rest(text, i) ==
    IF i > Len(text) THEN i - 1
    ELSE IF ESCAPED_SYMBOL_CHARACTERS(text, i) # 0
         THEN SYMBOL_rest(text, ESCAPED_SYMBOL_CHARACTERS(text, i) + 1)
    ELSE IF IsSymbolCharacter(text[i]) THEN SYMBOL_rest(text, i + 1)
    ELSE i - 1

\* SYMBOL = (ESCAPED_SYMBOL_CHARACTERS|LEADING_SYMBOL_CHARACTER)
\*          (ESCAPED_SYMBOL_CHARACTERS|SYMBOL_CHARACTER)*
RE_SYMBOL(text) ==
    IF text = <<>> THEN 0
    ELSE IF ESCAPED_SYMBOL_CHARACTERS(text, 1) # 0
         THEN SYMBOL_rest(text, ESCAPED_SYMBOL_CHARACTERS(text, 1) + 1)
    ELSE IF IsLeadingSymbolCharacter(text[1]) THEN SYMBOL_rest(text, 2)
    ELSE 0

\* DELIMITER = (,@|one of the delimiter characters)
RE_DELIMITER(text) ==
    IF StartsWith(text, <<",", "@">>) THEN 2
    ELSE IF text # <<>> /\ text[1] \in DELIMITER_CHARACTERS THEN 1
    ELSE 0

\* Token(type, offset, lineno, colno, source), a token with a position
PositionedToken(type, offset, lineno, colno, source) ==
    [type |-> type, offset |-> offset, lineno |-> lineno, colno |-> colno, source |-> source]

\* Token.from_source(token_type, source)
Token_from_source(token_type, source) == PositionedToken(token_type, -1, -1, -1, source)

EOF_TOKEN == PositionedToken("EOF", -1, -1, -1, <<>>)
DUMMY_ELSE_SYMBOL_TOKEN == PositionedToken("SYMBOL", -1, -1, -1, S_else)
DUMMY_LPAREN_TOKEN == PositionedToken("LPAREN", -1, -1, -1, LP)
DUMMY_RPAREN_TOKEN == PositionedToken("RPAREN", -1, -1, -1, LP)

\* TOKEN_PATTERNS: the patterns in the order they are tried
TOKEN_PATTERNS(text) ==
    << <<RE_BOOLEAN(text), "BOOLEAN">>,
       <<RE_ABBREVIATED_BOOLEAN(text), "BOOLEAN">>,
       <<RE_CHARACTER(text), "CHARACTER">>,
       <<RE_NUMBER(text), "NUMBER">>,
       <<RE_STRING(text), "STRING">>,
       <<RE_READER_DIRECTIVE(text), "READER DIRECTIVE">>,
       <<RE_SYMBOL(text), "SYMBOL">>,
       <<RE_DELIMITER(text), "DELIMITER">> >>

\* Lexer(): the object after __init__
Lexer == [truncated_source |-> <<>>, offset |-> -1, lineno |-> -1, colno |-> -1]

RECURSIVE Lexer_advance_lines(_, _)
\* _advance_position: for character in token_source
Lexer_advance_lines(self, token_source) ==
    IF token_source = <<>> THEN self
    ELSE Lexer_advance_lines(
             IF Head(token_source) = "\n"
             THEN [self EXCEPT !.lineno = @ + 1, !.colno = 0]
             ELSE [self EXCEPT !.colno = @ + 1],
             Tail(token_source))

\* _advance_position counting one for a token, whatever its length
Lexer_advance_position_by_one(self, token_source) ==
    Lexer_advance_lines([self EXCEPT !.offset = @ + 1], token_source)

\* Lexer._advance_position
Lexer_advance_position(self, token_source) ==
    Lexer_advance_lines([self EXCEPT !.offset = @ + Len(token_source)], token_source)

\* Lexer._truncate_source
Lexer_truncate_source(self, size) ==
    [self EXCEPT !.truncated_source = Drop(@, size)]

\* the type _make_token gives a DELIMITER: the first of the tests
\* token_source in <string> that holds
PunctuatorType(token_source) ==
    CASE token_source \in {<<"(">>, <<"[">>, <<"{">>} -> "LPAREN"
      [] token_source \in {<<")">>, <<"]">>, <<"}">>} -> "RPAREN"
      [] token_source = <<BACKQUOTE>> -> "QUASIQUOTE"
      [] token_source = <<"'">> -> "QUOTE"
      [] token_source = <<",">> -> "UNQUOTE"
      [] token_source = <<",", "@">> -> "UNQUOTE SPLICING"

\* Lexer._make_token: the token, and the lexer after it
Lexer_make_token(self, token_type, token_source) ==
    LET type  == IF token_type = "DELIMITER" THEN PunctuatorType(token_source)
                 ELSE token_type
        token == PositionedToken(type, self.offset, self.lineno, self.colno, token_source)
    IN  [token |-> token,
         self  |-> Lexer_truncate_source(Lexer_advance_position(self, token_source),
                                         Len(token.source))]

RECURSIVE Lexer_skip(_)
\* _next_token: the loop that skips whitespace and line comments
Lexer_skip(self) ==
    IF RE_WHITESPACE(self.truncated_source) > 0
    THEN Lexer_skip(Lexer_make_token(self, "WHITESPACE",
             SubSeq(self.truncated_source, 1, RE_WHITESPACE(self.truncated_source))).self)
    ELSE IF RE_LINE_COMMENT(self.truncated_source) > 0
    THEN Lexer_skip(Lexer_make_token(self, "COMMENT",
             SubSeq(self.truncated_source, 1, RE_LINE_COMMENT(self.truncated_source))).self)
    ELSE self

\* Lexer._next_token: [exc, self, token]; token.type is None at the end of the
\* source
Lexer_next_token(self0) ==
    LET self     == Lexer_skip(self0)
        patterns == TOKEN_PATTERNS(self.truncated_source)
        matching == {k \in DOMAIN patterns : patterns[k][1] > 0}
    IN  IF Len(self.truncated_source) = 0
        THEN [exc |-> "none", self |-> self, token |-> [type |-> None]]
        ELSE IF matching # {}
        THEN LET first == CHOOSE k \in matching : \A j \in matching : k <= j
                 made  == Lexer_make_token(self, patterns[first][2],
                              SubSeq(self.truncated_source, 1, patterns[first][1]))
             IN  [exc |-> "none", self |-> made.self, token |-> made.token]
        ELSE [exc |-> "UnrecognizedTokenError", self |-> self, token |-> [type |-> None],
              offset |-> self.offset]

\* tokenize(source), up to its loop: the fields are set when the generator
\* is first resumed
Lexer_tokenize_begin(self, text) ==
    [self EXCEPT !.truncated_source = text, !.offset = 0, !.lineno = 1, !.colno = 1]

(***************************************************************************)
(* Parser (reader/parser.py).  A method is an operator from the parser     *)
(* object before the call to the parser object after it:                   *)
(*   p = [token_stream, current_token, lparen_stack,                       *)
(*        h      the node objects made so far, a node's id its index,      *)
(*        exc    the exception raised, or none,                            *)
(*        node, token, nodes   what the call returned: a node, a token,    *)
(*                             or the list a loop of the method built].    *)
(* After a raise every operator hands the parser object on as it is.       *)
(***************************************************************************)
MATCHING_PARENS(lparen_source) ==
    CASE lparen_source = <<"(">> -> <<")">>
      [] lparen_source = <<"[">> -> <<"]">>
      [] lparen_source = <<"{">> -> <<"}">>

LITERAL_TOKEN_TYPES == {"BOOLEAN", "CHARACTER", "NUMBER", "STRING"}

QUOTE_RELATED_TOKEN_TYPES == {"QUASIQUOTE", "QUOTE", "UNQUOTE", "UNQUOTE SPLICING"}

QUOTE_RELATED_TOKEN_TYPE_NAME(token_type) ==
    CASE token_type = "QUASIQUOTE" -> Chars("quasiquote")
      [] token_type = "QUOTE" -> Chars("quote")
      [] token_type = "UNQUOTE" -> Chars("unquote")
      [] token_type = "UNQUOTE SPLICING" -> Chars("unquote-splicing")

\* re.match(DEFINITION, source): define(-struct)? at the start of source
DEFINITION(source) == StartsWith(source, S_define)

\* re.match(TEST_CASE, source)
TEST_CASE(source) ==
    \E name \in {"expect", "random", "within", "member-of", "range", "satisfied", "error"} :
        StartsWith(source, Chars("check-") \o Chars(name))

\* re.match(LIBRARY_REQUIRE, source)
LIBRARY_REQUIRE(source) == StartsWith(source, S_require)

\* RacketTestCaseNode.Type, the enumeration of the test case names
RacketTestCaseNode_Type ==
    {Chars("check-") \o Chars(name) :
        name \in {"expect", "random", "within", "member-of", "range", "satisfied", "error"}}

\* Parser(): the object after __init__
Parser ==
    [token_stream |-> <<>>, current_token |-> EOF_TOKEN, lparen_stack |-> <<>>, h |-> <<>>,
     exc |-> "none", exc_args |-> <<>>, node |-> 0, token |-> EOF_TOKEN, nodes |-> <<>>]

Raised(p) == p.exc # "none"

\* raise errors.<exc>(...)
Raise(p, exc) == [p EXCEPT !.exc = exc]

\* raise errors.<exc>(*args), args the tokens the exception carries
RaiseWith(p, exc, args) == [p EXCEPT !.exc = exc, !.exc_args = args]

\* a node object is made and returned
Parser_new(p, node) == [p EXCEPT !.h = Append(@, node), !.node = Len(p.h) + 1]

\* the fields RacketSExprNode.__init__ and its like set: token, lparen, rparen
SExpr(node, lparen, rparen) ==
    [lparen |-> lparen, rparen |-> rparen] @@ [node EXCEPT !.token = lparen]

\* a method's local variable: value is bound to it and the rest of the method
\* runs
Bind(value, rest(_)) == rest(value)

\* _eat without the comparison of the closer with its opener
Parser_eat_unmatched(p, token_type) ==
    IF Raised(p) THEN p
    ELSE IF p.current_token.type # token_type
    THEN RaiseWith(p, "ParserError", <<p.current_token>>)
    ELSE IF token_type = "RPAREN" /\ p.lparen_stack = <<>> THEN Raise(p, "IndexError")
    ELSE IF p.token_stream = <<>> THEN Raise(p, "IndexError")
    ELSE [p EXCEPT !.lparen_stack =
                       IF token_type = "LPAREN" THEN Append(@, p.current_token)
                       ELSE IF token_type = "RPAREN" THEN SubSeq(@, 1, Len(@) - 1)
                       ELSE @,
                   !.token = p.current_token,
                   !.current_token = Head(p.token_stream),
                   !.token_stream = Tail(p.token_stream)]

\* Parser._eat; as every method here, it hands a parser object that has raised
\* on as it is: the statements after a raise are not run
Parser_eat(p, token_type) ==
    IF Raised(p) THEN p
    ELSE IF p.current_token.type # token_type
    THEN RaiseWith(p, "ParserError", <<p.current_token>>)
    ELSE IF token_type = "RPAREN" /\ p.lparen_stack = <<>> THEN Raise(p, "IndexError")
    ELSE Bind([p EXCEPT !.lparen_stack =
                   IF token_type = "LPAREN" THEN Append(@, p.current_token)
                   ELSE IF token_type = "RPAREN" THEN SubSeq(@, 1, Len(@) - 1)
                   ELSE @], LAMBDA p1 :
         IF /\ token_type = "RPAREN"
            /\ p.current_token.source
                   # MATCHING_PARENS(p.lparen_stack[Len(p.lparen_stack)].source)
         THEN RaiseWith(p1, "MismatchedParenthesesError",
                        <<p.lparen_stack[Len(p.lparen_stack)], p.current_token>>)
         ELSE IF p.token_stream = <<>> THEN Raise(p1, "IndexError")
         ELSE [p1 EXCEPT !.token = p.current_token,
                         !.current_token = Head(p.token_stream),
                         !.token_stream = Tail(p.token_stream)])

\* Parser._is_special_statement, with the pattern as a predicate of the source
Parser_is_special_statement(p, pattern(_)) ==
    /\ p.current_token.type = "LPAREN"
    /\ Len(p.token_stream) > 0
    /\ p.token_stream[1].type = "SYMBOL"
    /\ pattern(p.token_stream[1].source)

\* Parser._is_special_expression
Parser_is_special_expression(p, names) ==
    p.token_stream[1].type = "SYMBOL" /\ p.token_stream[1].source \in names

\* Parser._reader_directive
Parser_reader_directive(p) ==
    LET p1 == Parser_new(p, [RacketReaderDirectiveNode(<<>>) EXCEPT !.token = p.current_token])
        p2 == Parser_eat(p1, "READER DIRECTIVE")
    IN  p2

\* Parser._literal
Parser_literal(p) ==
    LET p1 == Parser_eat(p, p.current_token.type)
    IN  IF Raised(p1) THEN p1
        ELSE Parser_new(p1, [kind |-> "literal", token |-> p1.token])

\* Parser._name
Parser_name(p) ==
    LET p1 == Parser_eat(p, "SYMBOL")
    IN  IF Raised(p1) THEN p1
        ELSE Parser_new(p1, [kind |-> "name", token |-> p1.token])

RECURSIVE Parser_names(_, _)
\* while self._current_token.type is not RPAREN: names.append(self._name())
Parser_names(p, names) ==
    IF Raised(p) THEN p
    ELSE IF p.current_token.type = "RPAREN" THEN [p EXCEPT !.nodes = names]
    ELSE LET p1 == Parser_name(p)
         IN  Parser_names(p1, Append(names, p1.node))

RECURSIVE Parser_expression(_)
RECURSIVE Parser_definition(_)

RECURSIVE Parser_expressions(_, _)
\* while self._current_token.type is not RPAREN:
\*     expressions.append(self._expression())
Parser_expressions(p, expressions) ==
    IF Raised(p) THEN p
    ELSE IF p.current_token.type = "RPAREN" THEN [p EXCEPT !.nodes = expressions]
    ELSE Bind(Parser_expression(p), LAMBDA p1 :
         Parser_expressions(p1, Append(expressions, p1.node)))

RECURSIVE Parser_definitions(_, _)
\* _local: while ...: definitions.append(self._definition())
Parser_definitions(p, definitions) ==
    IF Raised(p) THEN p
    ELSE IF p.current_token.type = "RPAREN" THEN [p EXCEPT !.nodes = definitions]
    ELSE Bind(Parser_definition(p), LAMBDA p1 :
         Parser_definitions(p1, Append(definitions, p1.node)))

RECURSIVE Parser_pairs(_, _, _)
\* _cond and _let: while ...: self._eat(LPAREN); pair = (first, second);
\* self._eat(RPAREN); pairs.append(pair), where first is self._expression()
\* in _cond and self._name() in _let
Parser_pairs(p, pairs, first_is_name) ==
    IF Raised(p) THEN p
    ELSE IF p.current_token.type = "RPAREN" THEN [p EXCEPT !.nodes = pairs]
    ELSE Bind(Parser_eat(p, "LPAREN"), LAMBDA p1 :
         Bind(IF first_is_name THEN Parser_name(p1) ELSE Parser_expression(p1), LAMBDA p2 :
         Bind(Parser_expression(p2), LAMBDA p3 :
         Bind(Parser_eat(p3, "RPAREN"), LAMBDA p4 :
         Parser_pairs(p4, Append(pairs, <<p2.node, p3.node>>), first_is_name)))))

\* Parser._desugar_function_definition
Parser_desugar_function_definition(p, lparen) ==
    Bind(Parser_eat(p, "LPAREN"), LAMBDA p1 :
    Bind(Parser_name(p1), LAMBDA name :
    Bind(Parser_names(name, <<>>), LAMBDA variables :
    Bind(Parser_eat(variables, "RPAREN"), LAMBDA p4 :
    Bind(Parser_expression(p4), LAMBDA expression :
    Bind(Parser_eat(expression, "RPAREN"), LAMBDA rparen :
    IF Raised(rparen) THEN rparen
    ELSE Bind(Parser_new(rparen, SExpr(RacketLambdaNode(variables.nodes, expression.node),
                                       DUMMY_LPAREN_TOKEN, DUMMY_RPAREN_TOKEN)),
              LAMBDA p7 :
         Parser_new(p7, SExpr(RacketNameDefinitionNode(name.node, p7.node),
                              lparen, rparen.token)))))))))

\* Parser._name_definition
Parser_name_definition(p) ==
    Bind(Parser_eat(p, "LPAREN"), LAMBDA lparen :
    Bind(Parser_eat(lparen, "SYMBOL"), LAMBDA p2 :
    IF Raised(p2) THEN p2
    ELSE IF p2.current_token.type = "LPAREN"
    THEN Parser_desugar_function_definition(p2, lparen.token)
    ELSE IF p2.current_token.type = "SYMBOL"
    THEN Bind(Parser_name(p2), LAMBDA name :
         Bind(Parser_expression(name), LAMBDA expression :
         Bind(Parser_eat(expression, "RPAREN"), LAMBDA rparen :
         IF Raised(rparen) THEN rparen
         ELSE Parser_new(rparen, SExpr(RacketNameDefinitionNode(name.node, expression.node),
                                       lparen.token, rparen.token)))))
    ELSE Raise(p2, "IllegalStateError")))

\* Parser._structure_definition
Parser_structure_definition(p) ==
    Bind(Parser_eat(p, "LPAREN"), LAMBDA lparen :
    Bind(Parser_name(Parser_eat(lparen, "SYMBOL")), LAMBDA name :
    Bind(Parser_names(Parser_eat(name, "LPAREN"), <<>>), LAMBDA fields :
    Bind(Parser_eat(Parser_eat(fields, "RPAREN"), "RPAREN"), LAMBDA rparen :
    IF Raised(rparen) THEN rparen
    ELSE Parser_new(rparen, SExpr(RacketStructureDefinitionNode(name.node, fields.nodes),
                                  lparen.token, rparen.token))))))

\* Parser._definition, with _is_name_definition and _is_structure_definition
Parser_definition(p) ==
    IF Raised(p) THEN p
    ELSE IF p.token_stream = <<>> THEN Raise(p, "IndexError")
    ELSE IF p.token_stream[1].source = S_define THEN Parser_name_definition(p)
    ELSE IF p.token_stream[1].source = S_struct THEN Parser_structure_definition(p)
    ELSE Raise(p, "IllegalStateError")

\* Parser._desugar_quote_related
Parser_desugar_quote_related(p) ==
    Bind(p.current_token.type, LAMBDA quote_related_token_type :
    Bind(Parser_expression(Parser_eat(p, quote_related_token_type)), LAMBDA expression :
    IF Raised(expression) THEN expression
    ELSE Bind(Parser_new(expression,
                  [kind |-> "name",
                   token |-> Token_from_source(quote_related_token_type,
                                 QUOTE_RELATED_TOKEN_TYPE_NAME(quote_related_token_type))]),
              LAMBDA name :
         Parser_new(name, SExpr(RacketProcedureApplicationNode(<<name.node, expression.node>>),
                                DUMMY_LPAREN_TOKEN, DUMMY_RPAREN_TOKEN)))))

\* Parser._cond
Parser_cond(p) ==
    Bind(Parser_eat(p, "LPAREN"), LAMBDA lparen :
    Bind(Parser_pairs(Parser_eat(lparen, "SYMBOL"), <<>>, FALSE), LAMBDA branches :
    Bind(Parser_eat(branches, "RPAREN"), LAMBDA rparen :
    IF Raised(rparen) THEN rparen
    ELSE Parser_new(rparen, SExpr(RacketCondNode(branches.nodes),
                                  lparen.token, rparen.token)))))

\* Parser._procedure_application
Parser_procedure_application(p) ==
    Bind(Parser_eat(p, "LPAREN"), LAMBDA lparen :
    Bind(Parser_expressions(lparen, <<>>), LAMBDA expressions :
    Bind(Parser_eat(expressions, "RPAREN"), LAMBDA rparen :
    IF Raised(rparen) THEN rparen
    ELSE Parser_new(rparen, SExpr(RacketProcedureApplicationNode(expressions.nodes),
                                  lparen.token, rparen.token)))))

\* _if without the desugaring: (if c t f) read as the application of if
Parser_if_not_desugared(p) == Parser_procedure_application(p)

\* Parser._if
Parser_if(p) ==
    Bind(Parser_eat(p, "LPAREN"), LAMBDA lparen :
    Bind(Parser_expression(Parser_eat(lparen, "SYMBOL")), LAMBDA condition :
    Bind(Parser_expression(condition), LAMBDA true_expression :
    Bind(Parser_expression(true_expression), LAMBDA false_expression :
    Bind(Parser_eat(false_expression, "RPAREN"), LAMBDA rparen :
    IF Raised(rparen) THEN rparen
    ELSE Bind(Parser_new(rparen, [kind |-> "name", token |-> DUMMY_ELSE_SYMBOL_TOKEN]),
              LAMBDA else_name :
         Parser_new(else_name,
             SExpr(RacketCondNode(<< <<condition.node, true_expression.node>>,
                                     <<else_name.node, false_expression.node>> >>),
                   lparen.token, rparen.token))))))))

\* Parser._lambda
Parser_lambda(p) ==
    Bind(Parser_eat(p, "LPAREN"), LAMBDA lparen :
    Bind(Parser_names(Parser_eat(Parser_eat(lparen, "SYMBOL"), "LPAREN"), <<>>),
         LAMBDA variables :
    Bind(Parser_expression(Parser_eat(variables, "RPAREN")), LAMBDA expression :
    Bind(Parser_eat(expression, "RPAREN"), LAMBDA rparen :
    IF Raised(rparen) THEN rparen
    ELSE Parser_new(rparen, SExpr(RacketLambdaNode(variables.nodes, expression.node),
                                  lparen.token, rparen.token))))))

\* Parser._let
Parser_let(p) ==
    Bind(Parser_eat(p, "LPAREN"), LAMBDA lparen :
    Bind(Parser_eat(lparen, "SYMBOL"), LAMBDA name :
    Bind(Parser_pairs(Parser_eat(name, "LPAREN"), <<>>, TRUE), LAMBDA local_definitions :
    Bind(Parser_expression(Parser_eat(local_definitions, "RPAREN")), LAMBDA expression :
    Bind(Parser_eat(expression, "RPAREN"), LAMBDA rparen :
    IF Raised(rparen) THEN rparen
    ELSE Parser_new(rparen,
             SExpr(RacketLetNode(name.token.source, local_definitions.nodes, expression.node),
                   lparen.token, rparen.token)))))))

\* Parser._local
Parser_local(p) ==
    Bind(Parser_eat(p, "LPAREN"), LAMBDA lparen :
    Bind(Parser_definitions(Parser_eat(Parser_eat(lparen, "SYMBOL"), "LPAREN"), <<>>),
         LAMBDA definitions :
    Bind(Parser_expression(Parser_eat(definitions, "RPAREN")), LAMBDA expression :
    Bind(Parser_eat(expression, "RPAREN"), LAMBDA rparen :
    IF Raised(rparen) THEN rparen
    ELSE Parser_new(rparen, SExpr(RacketLocalNode(definitions.nodes, expression.node),
                                  lparen.token, rparen.token))))))

\* Parser._test_case
Parser_test_case(p) ==
    Bind(Parser_eat(p, "LPAREN"), LAMBDA lparen :
    Bind(Parser_eat(lparen, "SYMBOL"), LAMBDA name :
    Bind(Parser_expressions(name, <<>>), LAMBDA expressions :
    Bind(Parser_eat(expressions, "RPAREN"), LAMBDA rparen :
    IF Raised(rparen) THEN rparen
    ELSE IF name.token.source \notin RacketTestCaseNode_Type THEN Raise(rparen, "ValueError")
    ELSE Parser_new(rparen, SExpr(RacketTestCaseNode(name.token.source, expressions.nodes),
                                  lparen.token, rparen.token))))))

\* Parser._library_require
Parser_library_require(p) ==
    Bind(Parser_eat(p, "LPAREN"), LAMBDA lparen :
    Bind(Parser_name(Parser_eat(lparen, "SYMBOL")), LAMBDA library :
    Bind(Parser_eat(library, "RPAREN"), LAMBDA rparen :
    IF Raised(rparen) THEN rparen
    ELSE Parser_new(rparen, SExpr(RacketLibraryRequireNode(library.node),
                                  lparen.token, rparen.token)))))

\* Parser._expression
Parser_expression(p) ==
    IF Raised(p) THEN p
    ELSE IF p.current_token.type \in LITERAL_TOKEN_TYPES THEN Parser_literal(p)
    ELSE IF p.current_token.type = "SYMBOL" THEN Parser_name(p)
    ELSE IF p.current_token.type \in QUOTE_RELATED_TOKEN_TYPES
    THEN Parser_desugar_quote_related(p)
    ELSE IF p.current_token.type # "LPAREN" THEN Raise(p, "IllegalStateError")
    ELSE IF Parser_is_special_expression(p, {S_cond}) THEN Parser_cond(p)
    ELSE IF Parser_is_special_expression(p, {Chars("if")}) THEN Parser_if(p)
    ELSE IF Parser_is_special_expression(p, {Chars("λ"), S_lambda}) THEN Parser_lambda(p)
    ELSE IF Parser_is_special_expression(p, {Chars("letrec"), S_let, Chars("let*")})
    THEN Parser_let(p)
    ELSE IF Parser_is_special_expression(p, {S_local}) THEN Parser_local(p)
    ELSE Parser_procedure_application(p)

\* Parser._statement
Parser_statement(p) ==
    IF p.current_token.type = "EOF"
    THEN RaiseWith(p, "UnexpectedEOFTokenError", <<p.current_token>>)
    ELSE IF p.current_token.type = "RPAREN"
    THEN RaiseWith(p, "UnexpectedRightParenthesisError", <<p.current_token>>)
    ELSE IF Parser_is_special_statement(p, DEFINITION) THEN Parser_definition(p)
    ELSE IF Parser_is_special_statement(p, TEST_CASE) THEN Parser_test_case(p)
    ELSE IF Parser_is_special_statement(p, LIBRARY_REQUIRE) THEN Parser_library_require(p)
    ELSE Parser_expression(p)

RECURSIVE Parser_parse_loop(_, _, _)
\* parse: while self._current_token.type is not EOF; reader_directive is 0
\* for None
Parser_parse_loop(p, reader_directive, statements) ==
    IF Raised(p) THEN p
    ELSE IF p.current_token.type = "EOF"
    THEN [p EXCEPT !.node = reader_directive, !.nodes = statements]
    ELSE IF p.current_token.type = "READER DIRECTIVE"
    THEN Bind(Parser_reader_directive(p), LAMBDA p1 :
         Parser_parse_loop(p1, p1.node, statements))
    ELSE Bind(Parser_statement(p), LAMBDA p1 :
         Parser_parse_loop(p1, reader_directive, Append(statements, p1.node)))

\* Parser.parse(tokens), tokens the list the token generator gave
Parser_parse(self, tokens) ==
    Bind(Head(tokens), LAMBDA first_token :
    Bind(Parser_parse_loop(
             [self EXCEPT !.token_stream = Tail(tokens), !.current_token = first_token,
                          !.lparen_stack = <<>>],
             0, <<>>), LAMBDA p1 :
    IF Raised(p1) THEN p1
    ELSE IF p1.node = 0 THEN RaiseWith(p1, "ExpectedReaderDirective", <<EOF_TOKEN>>)
    ELSE Parser_new(p1, [RacketProgramNode(p1.node, p1.nodes) EXCEPT !.token = first_token])))

(***************************************************************************)
(* The reader at work.  The token generator is resumed until it ends or    *)
(* raises (Parser.parse does so with list(tokens)), the tokens are parsed, *)
(* the program is stringified, and the text is read a second time, as in   *)
(* test_stringify_idempotent.                                              *)
(***************************************************************************)
\* the longest source of SpecLexer
MaxSourceLength == 4

\* the characters of the sources of SpecLexer: white space, a comment, one-
\* and two-character delimiters, boolean, number, symbol and string
Alphabet == {" ", "\n", ";", "(", ",", "@", "#", "t", "1", "\""}

Sources == UNION {[1..n -> Alphabet] : n \in 0..MaxSourceLength}

\* statements in the form the Stringifier writes
CanonicalStatements ==
    {Chars("1"), Chars("(define x 1)"), Chars("(define-struct posn (x y))"),
     Chars("(cond (#t 1) (else 2))"), Chars("(lambda (x) 1)"), Chars("(let* ((x 1)) x)"),
     Chars("(local ((define x 1)) x)"), Chars("(check-expect (f) 1)"),
     Chars("(require lib)")}

\* statements with sugar, and the form the parser gives them (test_desugar)
SugaredStatements ==
    {<<Chars("(define (x) 1)"), Chars("(define x (lambda () 1))")>>,
     <<Chars("(define (f x y) (if x 1 y))"),
       Chars("(define f (lambda (x y) (cond (x 1) (else y))))")>>,
     <<Chars("'a"), Chars("(quote a)")>>,
     <<<<BACKQUOTE>> \o Chars(",a"), Chars("(quasiquote (unquote a))")>>,
     <<<<BACKQUOTE>> \o Chars("(,@'(1 2 3))"),
       Chars("(quasiquote ((unquote-splicing (quote (1 2 3)))))")>>,
     <<Chars("(if #t 1 2)"), Chars("(cond (#t 1) (else 2))")>>}

\* statements written otherwise: brackets, white space and a comment, a
\* character and a string; and texts that are not read: an unknown token, a
\* definition without its expression
OtherStatements ==
    {Chars("[f {g 1}]"), Chars("(f  x) ; c"), Chars("(g #\\a \"b c\")"), Chars("#u"),
     Chars("(define x)")}

StatementTexts ==
    CanonicalStatements \cup {pair[1] : pair \in SugaredStatements} \cup OtherStatements

\* the most statements of a source of SpecReader
MaxStatements == 2

\* the source of a program: the directive line, then one statement a line
ProgramText(texts) == S_lang \o NL \o Join(NL, texts)

\* the desugared form of a statement
Desugared(text) ==
    IF \E pair \in SugaredStatements : pair[1] = text
    THEN (CHOOSE pair \in SugaredStatements : pair[1] = text)[2]
    ELSE text

InitLexer ==
    /\ input_statements = <<>>
    /\ source0 \in Sources
    /\ tokenized_source = source0
    /\ lexer_object = Lexer
    /\ yielded_tokens = <<>>
    /\ lpc = "created"
    /\ lexer_error = [kind |-> "none"]
    /\ parsed = <<>>
    /\ stringified = <<>>
    /\ round = 0
    /\ ApplierIdle /\ RunnerIdle /\ OutputIdle /\ MutatorIdle

InitReader ==
    /\ input_statements \in UNION {[1..n -> StatementTexts] : n \in 0..MaxStatements}
    /\ source0 = ProgramText(input_statements)
    /\ tokenized_source = source0
    /\ lexer_object = Lexer
    /\ yielded_tokens = <<>>
    /\ lpc = "created"
    /\ lexer_error = [kind |-> "none"]
    /\ parsed = <<>>
    /\ stringified = <<>>
    /\ round = 0
    /\ ApplierIdle /\ RunnerIdle /\ OutputIdle /\ MutatorIdle

\* the generator tokenize(source) is resumed: what _next_token gives
Resumed ==
    Lexer_next_token(IF lpc = "created"
                     THEN Lexer_tokenize_begin(lexer_object, tokenized_source)
                     ELSE lexer_object)

\* tokenize: yield token
TokenizeYield ==
    /\ lpc \in {"created", "suspended"}
    /\ Resumed.exc = "none"
    /\ Resumed.token.type # None
    /\ lexer_object' = Resumed.self
    /\ yielded_tokens' = Append(yielded_tokens, Resumed.token)
    /\ lpc' = "suspended"
    /\ UNCHANGED <<input_statements, source0, tokenized_source, lexer_error, parsed,
                   stringified, round>>
    /\ UNCHANGED notReaderVars

\* tokenize: _next_token gave None; yield EOF_TOKEN, and the generator ends
TokenizeEOF ==
    /\ lpc \in {"created", "suspended"}
    /\ Resumed.exc = "none"
    /\ Resumed.token.type = None
    /\ lexer_object' = Resumed.self
    /\ yielded_tokens' = Append(yielded_tokens, EOF_TOKEN)
    /\ lpc' = "exhausted"
    /\ UNCHANGED <<input_statements, source0, tokenized_source, lexer_error, parsed,
                   stringified, round>>
    /\ UNCHANGED notReaderVars

\* tokenize: _next_token raises UnrecognizedTokenError
TokenizeRaise ==
    /\ lpc \in {"created", "suspended"}
    /\ Resumed.exc # "none"
    /\ lexer_object' = Resumed.self
    /\ lpc' = "raised"
    /\ lexer_error' = [kind |-> Resumed.exc, offset |-> Resumed.offset]
    /\ UNCHANGED <<input_statements, source0, tokenized_source, yielded_tokens, parsed,
                   stringified, round>>
    /\ UNCHANGED notReaderVars

\* what Parser().parse(tokens) gives: the program, or the exception that
\* leaves it; the exception of the lexer leaves it through list(tokens)
Parse_result ==
    IF lpc = "raised"
    THEN [exc |-> lexer_error.kind, exc_args |-> <<>>, h |-> <<>>, root |-> 0,
          current_token |-> EOF_TOKEN, lparen_stack |-> <<>>]
    ELSE Bind(Parser_parse(Parser, yielded_tokens), LAMBDA p :
         [exc |-> p.exc, exc_args |-> p.exc_args,
          h |-> IF Raised(p) THEN <<>> ELSE p.h, root |-> IF Raised(p) THEN 0 ELSE p.node,
          current_token |-> p.current_token, lparen_stack |-> p.lparen_stack])

\* program = Parser().parse(tokens), once the generator has ended
Parse ==
    /\ lpc \in {"exhausted", "raised"}
    /\ Len(parsed) = round
    /\ parsed' = Append(parsed, Parse_result)
    /\ UNCHANGED <<input_statements, source0, tokenized_source, lexer_object,
                   yielded_tokens, lpc, lexer_error, stringified, round>>
    /\ UNCHANGED notReaderVars

\* Stringifier().visit(program)
Stringify ==
    /\ Len(parsed) = round + 1
    /\ Len(stringified) = round
    /\ parsed[round + 1].exc = "none"
    /\ stringified' =
           Append(stringified, Stringifier_visit(parsed[round + 1].h, parsed[round + 1].root))
    /\ UNCHANGED <<input_statements, source0, tokenized_source, lexer_object,
                   yielded_tokens, lpc, lexer_error, parsed, round>>
    /\ UNCHANGED notReaderVars

\* tokens_1 = lexer.tokenize(stringified_program_0)
Retokenize ==
    /\ round = 0
    /\ Len(stringified) = 1
    /\ round' = 1
    /\ tokenized_source' = stringified[1]
    /\ yielded_tokens' = <<>>
    /\ lpc' = "created"
    /\ UNCHANGED <<input_statements, source0, lexer_object, lexer_error, parsed, stringified>>
    /\ UNCHANGED notReaderVars

NextLexer == TokenizeYield \/ TokenizeEOF \/ TokenizeRaise

SpecLexer == InitLexer /\ [][NextLexer]_vars

NextReader ==
    \/ TokenizeYield
    \/ TokenizeEOF
    \/ TokenizeRaise
    \/ Parse
    \/ Stringify
    \/ Retokenize

SpecReader == InitReader /\ [][NextReader]_vars

(***************************************************************************)
(* Properties of the lexer.                                                *)
(***************************************************************************)
\* the tokens of the generator so far, the end-of-file token left out
NonEofTokens == SelectSeq(yielded_tokens, LAMBDA t : t.type # "EOF")

\* text is nothing but white space and line comments
IsSkippedText(text) ==
    Lexer_skip([Lexer EXCEPT !.truncated_source = text]).truncated_source = <<>>

\* the text of the source from the 0-indexed offset from up to offset to
Slice(text, from, to) == SubSeq(text, from + 1, to)

\* C20: every token the lexer yields but the end-of-file token lies in the
\* source at its 0-indexed offset, s[t.offset .. t.offset + len(t.source)] =
\* t.source; the offsets count the white space and the comments skipped, so
\* the text before the first token and between two tokens is skipped text
\* and nothing else; consecutive tokens do not overlap and their offsets
\* are strictly increasing.
C20_TokenOffsets ==
    LET toks == NonEofTokens
        end(k) == toks[k].offset + Len(toks[k].source)
    IN  /\ \A k \in DOMAIN toks :
               /\ toks[k].offset >= 0
               /\ Len(toks[k].source) >= 1
               /\ end(k) <= Len(tokenized_source)
               /\ Slice(tokenized_source, toks[k].offset, end(k)) = toks[k].source
        /\ \A k \in DOMAIN toks :
               LET before == IF k = 1 THEN 0 ELSE end(k - 1)
               IN  /\ before <= toks[k].offset
                   /\ k > 1 => toks[k - 1].offset < toks[k].offset
                   /\ IsSkippedText(Slice(tokenized_source, before, toks[k].offset))
        /\ lpc = "exhausted" /\ toks # <<>> =>
               IsSkippedText(Slice(tokenized_source, end(Len(toks)), Len(tokenized_source)))

\* the lexer has read a source to its end and yielded two tokens, one of
\* them longer than a character, with skipped text before the second
C20_Witness ==
    /\ lpc = "exhausted"
    /\ Len(NonEofTokens) >= 2
    /\ \E k \in 2..Len(NonEofTokens) :
           /\ Len(NonEofTokens[k - 1].source) >= 2
           /\ NonEofTokens[k].offset >
                  NonEofTokens[k - 1].offset + Len(NonEofTokens[k - 1].source)

(***************************************************************************)
(* Properties of the reader: tokenize, parse, stringify, and again.        *)
(***************************************************************************)
\* the source is in the form the Stringifier writes: the directive line,
\* one statement a line, round parentheses, single spaces, no sugar
IsCanonicalSource == \A k \in DOMAIN input_statements : input_statements[k] \in CanonicalStatements

\* the source has a structure definition
HasStructureDefinition ==
    \E k \in DOMAIN input_statements : input_statements[k] = Chars("(define-struct posn (x y))")

\* C17: for every parseable source s, stringify(parse(tokenize(s))) is itself
\* parseable, and stringifying its parse gives the identical string.
C17_StringifyIdempotent ==
    /\ Len(parsed) >= 2 /\ parsed[1].exc = "none" => parsed[2].exc = "none"
    /\ Len(stringified) >= 2 => stringified[2] = stringified[1]

\* C18: a program already written in canonical form round-trips unchanged,
\* stringify(parse(tokenize(s))) = s; a structure definition is written
\* with the source text of its name token.
C18_CanonicalRoundTrip ==
    IsCanonicalSource /\ Len(stringified) >= 1 => stringified[1] = source0

RECURSIVE Lexer_tokenize_rest(_, _)
\* tokenize(source) run to its end: the loop of tokenize from the lexer
\* object self on; [exc, tokens]
Lexer_tokenize_rest(self, yielded) ==
    LET next == Lexer_next_token(self)
    IN  IF next.exc # "none" THEN [exc |-> next.exc, tokens |-> yielded]
        ELSE IF next.token.type = None
        THEN [exc |-> "none", tokens |-> Append(yielded, EOF_TOKEN)]
        ELSE Lexer_tokenize_rest(next.self, Append(yielded, next.token))

\* Parser().parse(Lexer().tokenize(text)); a text of the model that the
\* lexer reads to its end
Read(text) == Parser_parse(Parser, Lexer_tokenize_rest(Lexer_tokenize_begin(Lexer, text), <<>>).tokens)

RECURSIVE Shape(_, _)
\* the shape of the tree below node n: the node's class, the source of a
\* leaf's token or the type of a let and of a test case, and the shapes of
\* the nodes in its slots; positions and token types are no part of it
Shape(h, n) ==
    <<h[n].kind,
      IF h[n].kind \in {"reader_directive", "literal", "name"} THEN h[n].token.source
      ELSE IF h[n].kind \in {"let", "test_case"} THEN h[n].type
      ELSE <<>>,
      [i \in DOMAIN Children(h, n) |-> Shape(h, Children(h, n)[i])]>>

RECURSIVE Lines(_)
\* text.split(NL)
Lines(text) ==
    IF \A i \in DOMAIN text : text[i] # "\n" THEN <<text>>
    ELSE LET i == CHOOSE j \in DOMAIN text : text[j] = "\n" /\ \A l \in 1..(j - 1) : text[l] # "\n"
         IN  <<SubSeq(text, 1, i - 1)>> \o Lines(Drop(text, i))

\* the statements of the source, each in its desugared form
DesugaredStatements == [k \in DOMAIN input_statements |-> Desugared(input_statements[k])]

\* the name the parser gives an abbreviation at the start of text, or <<>>
AbbreviationName(text) ==
    IF StartsWith(text, <<",", "@">>) THEN Chars("unquote-splicing")
    ELSE IF StartsWith(text, <<",">>) THEN Chars("unquote")
    ELSE IF StartsWith(text, <<"'">>) THEN Chars("quote")
    ELSE IF StartsWith(text, <<BACKQUOTE>>) THEN Chars("quasiquote")
    ELSE <<>>

\* the text after the abbreviation at the start of text
AbbreviationArgument(text) == IF StartsWith(text, <<",", "@">>) THEN Drop(text, 2) ELSE Drop(text, 1)

\* C19: the parser desugars at parse time.  Once a source has been parsed,
\* its tree has the shape of the tree of the source with every statement
\* written in its desugared form, (define (f x ...) e) as
\* (define f (lambda (x ...) e)) among them; a statement that begins with
\* one of the abbreviations before e is a procedure application of two
\* expressions, the name quote, quasiquote, unquote or unquote-splicing and
\* the tree of e; the statement (if #t 1 2) is a cond with exactly the
\* branches (#t, 1) and (the name else, 2); and the line of the stringified
\* program for a statement is the statement's desugared form.
C19_ParseTimeDesugaring ==
    round = 0 /\ Len(parsed) >= 1 /\ parsed[1].exc = "none" =>
        LET h    == parsed[1].h
            root == parsed[1].root
            desugared == Read(ProgramText(DesugaredStatements))
        IN  /\ ~Raised(desugared)
            /\ Shape(h, root) = Shape(desugared.h, desugared.node)
            /\ Len(h[root].statements) = Len(input_statements)
            /\ \A k \in DOMAIN input_statements :
                   LET n == h[root].statements[k]
                   IN  /\ AbbreviationName(input_statements[k]) # <<>> =>
                              /\ h[n].kind = "procedure_application"
                              /\ Len(h[n].expressions) = 2
                              /\ h[h[n].expressions[1]].kind = "name"
                              /\ h[h[n].expressions[1]].token.source =
                                     AbbreviationName(input_statements[k])
                              /\ LET e == Read(ProgramText(
                                              <<AbbreviationArgument(input_statements[k])>>))
                                 IN  Shape(h, h[n].expressions[2]) =
                                        Shape(e.h, e.h[e.node].statements[1])
                       /\ input_statements[k] = Chars("(if #t 1 2)") =>
                              /\ h[n].kind = "cond"
                              /\ Len(h[n].branches) = 2
                              /\ Shape(h, h[n].branches[1][1]) = <<"literal", Chars("#t"), <<>> >>
                              /\ Shape(h, h[n].branches[1][2]) = <<"literal", Chars("1"), <<>> >>
                              /\ Shape(h, h[n].branches[2][1]) = <<"name", Chars("else"), <<>> >>
                              /\ Shape(h, h[n].branches[2][2]) = <<"literal", Chars("2"), <<>> >>
            /\ Len(stringified) >= 1 =>
                   \A k \in DOMAIN input_statements :
                       (\E pair \in SugaredStatements : pair[1] = input_statements[k]) =>
                           /\ Len(Lines(stringified[1])) = Len(input_statements) + 1
                           /\ Lines(stringified[1])[k + 1] = Desugared(input_statements[k])

\* a source with a function definition that holds an if, and with the
\* abbreviations of quasiquote, unquote-splicing and quote, has been parsed
\* and stringified
C19_Witness ==
    /\ round = 0
    /\ Len(stringified) = 1
    /\ input_statements = <<Chars("(define (f x y) (if x 1 y))"),
                            <<BACKQUOTE>> \o Chars("(,@'(1 2 3))")>>
    /\ stringified[1] = ProgramText(<<Chars("(define f (lambda (x y) (cond (x 1) (else y))))"),
                Chars("(quasiquote ((unquote-splicing (quote (1 2 3)))))")>>)

\* the newlines in the source before the 0-indexed offset
NewlinesBefore(text, offset) == Cardinality({i \in 1..offset : text[i] = "\n"})

\* the characters of the source between the last newline before the
\* 0-indexed offset (the start of the source if there is none) and the offset
SinceNewline(text, offset) ==
    LET newlines == {i \in 1..offset : text[i] = "\n"}
    IN  IF newlines = {} THEN offset
        ELSE offset - (CHOOSE i \in newlines : \A j \in newlines : j <= i)

\* C21: every token's line and column are 1-indexed and locate the token's
\* first character: the line is one more than the newlines before it, the
\* column one more than the characters between the last newline and it, so
\* a token that starts a line has column 1 and every column is >= 1.
C21_LineAndColumn ==
    \A k \in DOMAIN NonEofTokens :
        LET t == NonEofTokens[k]
        IN  /\ t.lineno = 1 + NewlinesBefore(tokenized_source, t.offset)
            /\ t.colno = 1 + SinceNewline(tokenized_source, t.offset)
            /\ t.colno >= 1

\* a double-quoted string opens at the 0-indexed offset of the source and no
\* double quote closes it before the end of the source
UnterminatedStringAt(text, offset) ==
    /\ offset < Len(text)
    /\ text[offset + 1] = "\""
    /\ \A i \in (offset + 2)..Len(text) : text[i] # "\""

\* C25: when the lexer, having yielded the tokens before it, stands at a
\* double quote that is never closed, tokenizing fails with
\* UnexpectedEOFInStringError and with no other lexer error, at the offset
\* of that double quote.
C25_UnexpectedEOFInString ==
    /\ lpc \in {"created", "suspended"}
       /\ UnterminatedStringAt(tokenized_source, Lexer_skip(
              IF lpc = "created" THEN Lexer_tokenize_begin(lexer_object, tokenized_source)
              ELSE lexer_object).offset)
       => Resumed.exc # "none"
    /\ lpc = "raised" /\ UnterminatedStringAt(tokenized_source, lexer_error.offset)
       => lexer_error.kind = "UnexpectedEOFInStringError"

\* ---- the parser on sources with and without reader directives, with
\* ---- mismatched and unclosed forms, and with keyword-like head symbols

\* reader directives
DirectiveLines == {Chars("#lang a"), Chars("#reader b")}

\* closed forms of each kind
ClosedLines ==
    {Chars("1"), Chars("(f 1)"), Chars("[f {g 1}]"), Chars("(define x 1)"),
     Chars("(define (f) 1)"), Chars("(define-struct p (x))"), Chars("(cond [#t 1])"),
     Chars("(lambda (x) 1)"), Chars("(let ((x 1)) x)"), Chars("(local [(define x 1)] x)"),
     Chars("(check-expect (f) 1)"), Chars("(require lib)"), Chars("'(a)")}

\* forms with a closer that is not the partner of its opener, at depth one,
\* two and three
MismatchedLines ==
    {Chars("(f 1]"), Chars("[f (g 1}]"), Chars("(f [g {h 1)])"), Chars("(define x 1}"),
     Chars("(define (f] 1)"), Chars("(define-struct p (x])"), Chars("(cond [#t 1))"),
     Chars("(lambda (x} 1)"), Chars("(let ((x 1]) x)"), Chars("(local [(define x 1)) x)"),
     Chars("(check-expect (f) 1]"), Chars("(require lib}"), Chars("'(a]")}

\* forms that the end of the source leaves open
UnclosedLines ==
    {Chars("("), Chars("(f 1"), Chars("(f (g"), Chars("(define x"), Chars("(define x 1"),
     Chars("(define (f"), Chars("(define-struct p (x"), Chars("(cond"), Chars("(cond [#t 1]"),
     Chars("(lambda (x"), Chars("(lambda (x) 1"), Chars("(let ((x 1"), Chars("(let ((x 1)) x"),
     Chars("(local [(define x 1)"), Chars("(local [] x"), Chars("(check-expect (f) 1"),
     Chars("(require"), Chars("(require lib")}

\* forms whose head symbol begins with a keyword, or is no keyword at all
HeadLines ==
    {Chars("(defined? x)"), Chars("(define-structure x)"), Chars("(required x)"),
     Chars("(check-expected x)"), Chars("(requir x)"), Chars("(check x)")}

\* a closer with no opener, a token the lexer does not know
StrayLines == {Chars(")"), Chars("#u")}

ParserLines ==
    DirectiveLines \cup ClosedLines \cup MismatchedLines \cup UnclosedLines
        \cup HeadLines \cup StrayLines

\* the most lines of a source of SpecParser
MaxLines == 2

InitParser ==
    /\ input_statements \in UNION {[1..n -> ParserLines] : n \in 0..MaxLines}
    /\ source0 = Join(NL, input_statements)
    /\ tokenized_source = source0
    /\ lexer_object = Lexer
    /\ yielded_tokens = <<>>
    /\ lpc = "created"
    /\ lexer_error = [kind |-> "none"]
    /\ parsed = <<>>
    /\ stringified = <<>>
    /\ round = 0
    /\ ApplierIdle /\ RunnerIdle /\ OutputIdle /\ MutatorIdle

NextParser ==
    \/ TokenizeYield
    \/ TokenizeEOF
    \/ TokenizeRaise
    \/ Parse

SpecParser == InitParser /\ [][NextParser]_vars

\* the reader-directive tokens the lexer yielded, in their order
DirectiveTokens == SelectSeq(yielded_tokens, LAMBDA t : t.type = "READER DIRECTIVE")

\* the program Parser.parse returned
ParsedProgram == parsed[1].h[parsed[1].root]

\* C22: the program Parser.parse returns has one reader directive, the first
\* reader-directive token of the input wherever it stands among the
\* statements: a later directive does not replace it; and an input without
\* a reader directive that is otherwise parsed to its end fails with
\* ExpectedReaderDirective.
C22_FirstDirectiveWins ==
    Len(parsed) >= 1 =>
        /\ parsed[1].exc = "none" =>
               /\ DirectiveTokens # <<>>
               /\ parsed[1].h[ParsedProgram.reader_directive].kind = "reader_directive"
               /\ parsed[1].h[ParsedProgram.reader_directive].token = DirectiveTokens[1]
        /\ lpc = "exhausted" /\ DirectiveTokens = <<>> => parsed[1].exc # "none"
        /\ parsed[1].exc = "ExpectedReaderDirective" => DirectiveTokens = <<>>

RECURSIVE ParenScan(_, _, _)
\* the parentheses of the tokens from the i-th on, read against the stack of
\* the openers still open: the first closer that is not the partner of the
\* most recent open opener, or the first closer with no opener, or the
\* openers the end leaves open
ParenScan(tokens, i, stack) ==
    IF i > Len(tokens) THEN [status |-> "ok", stack |-> stack]
    ELSE IF tokens[i].type = "LPAREN" THEN ParenScan(tokens, i + 1, Append(stack, tokens[i]))
    ELSE IF tokens[i].type # "RPAREN" THEN ParenScan(tokens, i + 1, stack)
    ELSE IF stack = <<>> THEN [status |-> "stray", stack |-> stack, closer |-> tokens[i]]
    ELSE IF tokens[i].source # MATCHING_PARENS(stack[Len(stack)].source)
    THEN [status |-> "mismatch", stack |-> stack, opener |-> stack[Len(stack)],
          closer |-> tokens[i]]
    ELSE ParenScan(tokens, i + 1, SubSeq(stack, 1, Len(stack) - 1))

\* C23: a closing parenthesis the parser consumes is the partner of the most
\* recent opening one still open, or parsing fails with
\* MismatchedParenthesesError carrying that opener and the closer: no AST is
\* returned for tokens with a mismatched pair, at any depth, and in a
\* returned AST the two parentheses of every node match.
C23_MismatchedParentheses ==
    Len(parsed) >= 1 /\ lpc = "exhausted" =>
        LET scan == ParenScan(yielded_tokens, 1, <<>>)
        IN  /\ scan.status = "mismatch" => parsed[1].exc # "none"
            /\ parsed[1].exc = "MismatchedParenthesesError" =>
                   /\ scan.status = "mismatch"
                   /\ parsed[1].exc_args = <<scan.opener, scan.closer>>
            /\ parsed[1].exc = "none" =>
                   \A n \in DOMAIN parsed[1].h :
                       "lparen" \in DOMAIN parsed[1].h[n]
                       /\ parsed[1].h[n].lparen.offset >= 0
                       /\ parsed[1].h[n].rparen.offset >= 0
                       => parsed[1].h[n].rparen.source
                              = MATCHING_PARENS(parsed[1].h[n].lparen.source)

\* parsing failed with MismatchedParenthesesError at a closer two or more
\* openers deep
C23_Witness ==
    /\ Len(parsed) >= 1
    /\ parsed[1].exc = "MismatchedParenthesesError"
    /\ Len(parsed[1].lparen_stack) >= 1
    /\ parsed[1].exc_args[1].source = <<"[">>
    /\ parsed[1].exc_args[2].source = <<")">>

\* C24: when the parser stops at the eof token while an opening parenthesis
\* is still open (the paren stack is not empty), in whichever form it is,
\* parsing fails with UnexpectedEOFTokenError carrying the eof token.
C24_UnexpectedEOFToken ==
    /\ Len(parsed) >= 1
    /\ lpc = "exhausted"
    /\ parsed[1].current_token.type = "EOF"
    /\ parsed[1].lparen_stack # <<>>
    => /\ parsed[1].exc = "UnexpectedEOFTokenError"
       /\ parsed[1].exc_args = <<EOF_TOKEN>>

\* the head symbols of the special statements: define and define-struct,
\* the seven check-* names, require
DefinitionHeads == {Chars("define"), Chars("define-struct")}
TestCaseHeads ==
    {Chars("check-expect"), Chars("check-random"), Chars("check-within"),
     Chars("check-member-of"), Chars("check-range"), Chars("check-satisfied"),
     Chars("check-error")}
LibraryRequireHeads == {Chars("require")}

\* the source is a reader directive and, on the next line, one closed form
\* (head argument) with a symbol for its head and a symbol for its argument
IsHeadForm ==
    /\ lpc = "exhausted"
    /\ Len(yielded_tokens) = 6
    /\ [i \in 1..6 |-> yielded_tokens[i].type]
           = <<"READER DIRECTIVE", "LPAREN", "SYMBOL", "SYMBOL", "RPAREN", "EOF">>
    /\ yielded_tokens[5].source = MATCHING_PARENS(yielded_tokens[2].source)

\* C26: a top-level form is a definition only when its head symbol is
\* exactly define or define-struct, a test case only when it is exactly one
\* of the seven check-* names, a library require only when it is exactly
\* require; with any other head symbol, one that begins with such a keyword
\* included, it is parsed as a procedure application and no error is raised.
C26_ExactHeadSymbols ==
    Len(parsed) >= 1 /\ IsHeadForm =>
        LET head == yielded_tokens[3].source
            kind == parsed[1].h[ParsedProgram.statements[1]].kind
        IN  /\ head \notin DefinitionHeads \cup TestCaseHeads \cup LibraryRequireHeads
               => /\ parsed[1].exc = "none"
                  /\ Len(ParsedProgram.statements) = 1
                  /\ kind = "procedure_application"
            /\ parsed[1].exc = "none" =>
                  /\ kind \in {"name_definition", "structure_definition"}
                         => head \in DefinitionHeads
                  /\ kind = "test_case" => head \in TestCaseHeads
                  /\ kind = "library_require" => head \in LibraryRequireHeads

\* the child of the program exits by itself before the timeout deadline
ExitsBeforeDeadline(program) ==
    \E runtime \in program.behaviour.runtime : runtime <= TIMEOUT * TicksPerSecond

\* C28: a mutant whose child exited before its timeout deadline is never
\* found past the timeout by the scheduler, whenever the scheduler polls it,
\* and the MutantOutput emitted for it carries the child's real returncode,
\* stdout and stderr.
C28_ExitedNeverTimedOut ==
    \A id \in MutantPrograms :
        ExitsBeforeDeadline(programs[id]) =>
            /\ id \notin timed_out
            /\ \A j \in DOMAIN outputs :
                   outputs[j].mutation = id =>
                       outputs[j] = MutantOutput(programs[id].mut,
                                                 programs[id].behaviour.returncode,
                                                 programs[id].behaviour.stdout,
                                                 programs[id].behaviour.stderr)

\* Runner.run and the consumer of mutant_results as a running program: it is
\* sequential code, so whenever it has a next step it takes one; every sleep
\* returns, and the clock has moved on when it does
SpecRunnerFair == InitRunner /\ [][NextRunner]_vars /\ WF_vars(NextRunner)

\* C27: for any finite stream of mutants, run_mutants, once started and as
\* long as its consumer goes on asking for results, eventually returns with
\* running_programs empty, even when children never exit by themselves:
\* every remaining process is drained, as finished or as timed out.
C27_RunMutantsTerminates ==
    (gpc = "top") ~>
        \/ gpc = "done" /\ running_programs = <<>>
        \/ epc = "raised" /\ gpc \notin {"done", "raised"}

\* the test case and library require statements of the program
UnmutatedStatements(h) ==
    {s \in Range(h[Root].statements) : h[s].kind \in {"test_case", "library_require"}}

\* the texts of the program's test cases, in the order of the statements
TestCaseTexts(h) ==
    LET tests == SelectSeq(h[Root].statements, LAMBDA s : h[s].kind = "test_case")
    IN  [i \in DOMAIN tests |-> Stringifier_visit(h, tests[i])]

\* C29: no mutation the Mutator generates has as its original a test case or
\* library require statement or a node inside one, because the traversal
\* does not go into them; so the test cases have the same text in the
\* program and in the program with any one mutation's original replaced.
C29_TestCasesUnmutated ==
    mpc = "generated" =>
        \A j \in DOMAIN mutations :
            /\ \A s \in UnmutatedStatements(ast0) :
                   mutations[j].original \notin {s} \cup Descendants(ast0, s)
            /\ TestCaseTexts(Replace(ast, mutations[j].original, mutations[j].replacement))
                   = TestCaseTexts(ast0)

\* mutations were generated for a program that has a library require, a
\* test case with applications of mapped procedures inside, and such an
\* application outside
C29_Witness ==
    /\ mpc = "generated"
    /\ ast0 = ProgramTested
    /\ Len(mutations) >= 2
    /\ \A name \in ProcedureNames :
           \E k \in DOMAIN mutator.generators :
               /\ name \in DOMAIN mutator.generators[k].replacements
               /\ mutator.generators[k].replacements[name] # <<>>

\* the three numbers and the per-mutant list a call gave
Summary(outcome) ==
    [total |-> outcome.total, killed |-> outcome.killed,
     execution_error |-> outcome.execution_error]

\* C30: on a RunnerSuccess, in any sequence of score and to_dict calls the
\* first call consumes the stream of mutant results, every later call
\* returns the same total, killed and execution_error and the same
\* per-mutant list, no mutant is run twice and no result is recorded twice.
C30_CallsIdempotent ==
    /\ \A i \in DOMAIN calls :
           /\ calls[i].exc = "none"
           /\ Summary(calls[i]) = Summary(calls[1])
           /\ calls[i].total = Len(evaluated_mutant_results)
           /\ \A j \in DOMAIN calls :
                  calls[i].call = "to_dict" /\ calls[j].call = "to_dict" =>
                      calls[i].mutations = calls[j].mutations
    /\ calls # <<>> => mutant_results = None
    /\ \A i, j \in DOMAIN evaluated_mutant_results :
           evaluated_mutant_results[i].mutation = evaluated_mutant_results[j].mutation
               => i = j
    /\ Taken <= Len(mutant_stream)

====
